---- MODULE Spec2Model ----
(***************************************************************************)
(* Model of the budget-management client: page components that query a    *)
(* remote tabular store through a shared query cache, mutate it from form  *)
(* handlers, and aggregate rows for the dashboards.                        *)
(***************************************************************************)
EXTENDS Integers, Sequences, FiniteSets, TLC

VARIABLES
    page,       \* the page component that is mounted
    db,         \* the remote store: one set of rows per table
    nextId,     \* next row id the store hands out, per table (ids are never reused)
    q,          \* the query cache, one entry per query key
    muts,       \* mutations in flight
    idx,        \* local state of the Index pages
    prg,        \* local state of the Programs page
    fnd,        \* local state of the Funding page
    exp,        \* local state of the Expenses page
    steps,      \* user interactions so far
    dash,       \* the dashboards: fetched rows and the state of their queries
    ps,         \* the second dashboard's programs and program-summaries queries
    lay,        \* the Layout: its profile query and its theme toggles
    prof,       \* the Profile page and the Layout header: profile row, form, uploads
    last,       \* the handler or step that ran last
    toasts,     \* the notifications raised by the last step
    issued,     \* the requests issued by the last step
    invalidated \* the query keys invalidated by the last step

vars == <<page, db, nextId, q, muts, idx, prg, fnd, exp, steps, dash, ps, lay, prof, last, toasts, issued, invalidated>>

-----------------------------------------------------------------------------
(* Bounds *)

MaxId == 4          \* the store hands out ids below this bound
MaxInflight == 1    \* mutations that may be in flight at once
MaxSteps == 4       \* user interactions in one visit of a page

-----------------------------------------------------------------------------
(* Values *)

NoId == 0           \* null id / null program reference
AnyId == -1         \* no restriction on an integer column
AnyS == "*"         \* no restriction on a string column
NaN == -2           \* parseFloat of a non-numeric string
EmptyId == -3       \* the empty string where a row id is expected

Me == "u1"          \* the authenticated user
Users == {"u1", "u2"}

Tables == {"programs", "expenses", "funding"}

NameInputs == {"", "a"}
BudgetInputs == {"", "5"}

ParseFloat(s) == CASE s = "5" -> 5
                   [] s = "7" -> 7
                   [] s = "0" -> 0
                   [] OTHER -> NaN

\* JavaScript truthiness of a string: only the empty string is falsy
Truthy(s) == s # ""

\* x || null for a program reference
OrNull(id) == IF id = EmptyId \/ id = NoId THEN NoId ELSE id

NumToString(n) == CASE n = 5 -> "5"
                 [] n = 7 -> "7"
                 [] n = 0 -> "0"
                 [] OTHER -> "NaN"

Null == [null |-> TRUE]     \* null / undefined object reference
NoValues == [none |-> TRUE] \* a request without a payload

-----------------------------------------------------------------------------
(* The remote store.  A request is executed exactly as the client built it: *)
(* the rows it touches are the rows matching its eq() restrictions.         *)

Request(op, table, id, user, program, category, cols, values) ==
    [op |-> op, table |-> table, id |-> id, user_id |-> user,
     program_id |-> program, category |-> category, cols |-> cols, values |-> values]

Match(row, r) ==
    /\ r.id = AnyId \/ row.id = r.id
    /\ r.user_id = AnyS \/ row.user_id = r.user_id
    /\ r.program_id = AnyId \/ row.program_id = r.program_id
    /\ r.category = AnyS \/ row.category = r.category

Project(row, cols) ==
    IF cols = {"*"} THEN row ELSE [c \in cols |-> row[c]]

Select(d, r) == {Project(row, r.cols) : row \in {x \in d[r.table] : Match(x, r)}}

Patch(row, v) == [c \in DOMAIN row |-> IF c \in DOMAIN v THEN v[c] ELSE row[c]]

\* the column defaults the store fills in on insert
Defaults(table) ==
    CASE table = "programs" -> [status |-> "active"]
      [] table = "expenses" -> [program_id |-> NoId, approval_status |-> "pending"]
      [] table = "funding" -> [program_id |-> NoId]

\* the table contents after the store has executed a successful write
Execute(d, n, r) ==
    CASE r.op = "insert" ->
           [d EXCEPT ![r.table] = @ \cup {[id |-> n[r.table]] @@ r.values @@ Defaults(r.table)}]
      [] r.op = "update" ->
           [d EXCEPT ![r.table] = {IF Match(x, r) THEN Patch(x, r.values) ELSE x : x \in @}]
      [] r.op = "delete" ->
           [d EXCEPT ![r.table] = {x \in @ : ~Match(x, r)}]
      [] OTHER -> d

ProgramRow(id, user, name, budget, status) ==
    [id |-> id, user_id |-> user, name |-> name, budget |-> budget, status |-> status]

ExpenseRow(id, user, amount, category, program, status) ==
    [id |-> id, user_id |-> user, amount |-> amount, category |-> category,
     program_id |-> program, approval_status |-> status,
     description |-> "d", payee |-> "p", payment_method |-> "Credit Card"]

FundingRow(id, user, amount, type, program) ==
    [id |-> id, user_id |-> user, amount |-> amount, type |-> type,
     program_id |-> program, source |-> "s"]

-----------------------------------------------------------------------------
(* The query cache (useQuery / invalidateQueries).                          *)

Keys == {"programs", "expenses", "funding"}

Pages == {"Index", "IndexFirst", "Programs", "Funding", "Expenses"}

\* the queries each page declares
PageQueries(p) ==
    CASE p = "Index" -> {"programs"}
      [] p = "IndexFirst" -> {"programs"}
      [] p = "Programs" -> {"programs"}
      [] p = "Funding" -> {"programs", "funding"}
      [] p = "Expenses" -> {"expenses", "programs"}

NoResp == [ok |-> FALSE, rows |-> {}]

IdleQuery == [status |-> "pending", has |-> FALSE, rows |-> {}, fetch |-> "idle",
              req |-> Null, resp |-> NoResp]

\* the request a page's queryFn builds for a query key; e is the Expenses
\* page's local state, whose filters the expenses query reads
QueryRequest(p, key, e) ==
    CASE p \in {"Index", "IndexFirst"} ->
           Request("select", "programs", AnyId, AnyS, AnyId, AnyS, {"*"}, NoValues)
      [] p = "Programs" ->
           Request("select", "programs", AnyId, Me, AnyId, AnyS, {"*"}, NoValues)
      [] p = "Funding" /\ key = "programs" ->
           Request("select", "programs", AnyId, Me, AnyId, AnyS, {"id", "name"}, NoValues)
      [] p = "Funding" /\ key = "funding" ->
           Request("select", "funding", AnyId, Me, AnyId, AnyS, {"*"}, NoValues)
      [] p = "Expenses" /\ key = "programs" ->
           Request("select", "programs", AnyId, AnyS, AnyId, AnyS, {"id", "name"}, NoValues)
      [] p = "Expenses" /\ key = "expenses" ->
           Request("select", "expenses", AnyId, AnyS,
                   IF e.filterProgramId # NoId THEN e.filterProgramId ELSE AnyId,
                   IF e.filterCategory # "" THEN e.filterCategory ELSE AnyS,
                   {"*"}, NoValues)

\* what ran last: the handler or step, the table or query key, the row id it was given
Event(act, key, id) == [act |-> act, key |-> key, id |-> id]

Toast(variant, text) == [variant |-> variant, text |-> text]

\* the notifications a page's queryFn raises when its request returns an error
QueryErrorToasts(p, key) ==
    CASE p \in {"Index", "IndexFirst"} -> <<Toast("destructive", "Error fetching programs")>>
      [] p = "Expenses" /\ key = "expenses" -> <<Toast("error", "Error fetching expenses")>>
      [] p = "Expenses" /\ key = "programs" -> <<Toast("error", "Error fetching programs")>>
      [] OTHER -> <<>>

\* a queryFn that copies approval_status into status as it is
QueryTransformCopies(p, key, rows) ==
    IF p = "Expenses" /\ key = "expenses"
    THEN {[status |-> r.approval_status] @@ r : r \in rows}
    ELSE rows

\* the rows a page's queryFn returns for the rows the store sent
QueryTransform(p, key, rows) ==
    IF p = "Expenses" /\ key = "expenses"
    THEN {[status |-> IF r.approval_status # "" THEN r.approval_status ELSE "pending"] @@ r
            : r \in rows}
    ELSE rows

\* a query observed by the mounted page starts fetching, superseding a fetch
\* that is still in flight
StartFetch(p, key, e) ==
    [status |-> IF q[key].has THEN q[key].status ELSE "pending", has |-> q[key].has, rows |-> q[key].rows,
     fetch |-> "sent", req |-> QueryRequest(p, key, e), resp |-> NoResp]

\* queryClient.invalidateQueries({ queryKey: [key] }) for every key in keys
Invalidate(keys, e) ==
    [k \in Keys |-> IF k \in keys /\ k \in PageQueries(page)
                    THEN StartFetch(page, k, e) ELSE q[k]]

InvalidateRequests(keys, e) ==
    {QueryRequest(page, k, e) : k \in keys \cap PageQueries(page)}

\* a step taken by the user, and a step taken by the store or by a continuation
UserStep == steps < MaxSteps /\ steps' = steps + 1 /\ UNCHANGED <<dash, ps, lay, prof>>
AutoStep == steps' = steps /\ UNCHANGED <<dash, ps, lay, prof>>

\* the store answers a query's request
ServerRead(key) ==
    /\ AutoStep
    /\ q[key].fetch = "sent"
    /\ \E ok \in BOOLEAN :
         q' = [q EXCEPT ![key].fetch = "read",
                        ![key].resp = [ok |-> ok,
                                       rows |-> IF ok THEN Select(db, q[key].req) ELSE {}]]
    /\ last' = Event("ServerRead", key, NoId)
    /\ toasts' = <<>> /\ issued' = {} /\ invalidated' = {}
    /\ UNCHANGED <<page, db, nextId, muts, idx, prg, fnd, exp>>

\* the rest of the queryFn runs on the answer, and the cache takes the result
QuerySettled(key) ==
    /\ AutoStep
    /\ q[key].fetch = "read"
    /\ IF q[key].resp.ok
       THEN /\ q' = [q EXCEPT ![key].fetch = "idle", ![key].resp = NoResp,
                              ![key].status = "success", ![key].has = TRUE,
                              ![key].rows = QueryTransform(page, key, q[key].resp.rows)]
            /\ toasts' = <<>>
       ELSE /\ q' = [q EXCEPT ![key].fetch = "idle", ![key].resp = NoResp,
                              ![key].status = "error"]
            /\ toasts' = QueryErrorToasts(page, key)
    /\ last' = Event(IF q[key].resp.ok THEN "QuerySucceeded" ELSE "QueryFailed", key, NoId)
    /\ issued' = {} /\ invalidated' = {}
    /\ UNCHANGED <<page, db, nextId, muts, idx, prg, fnd, exp>>

-----------------------------------------------------------------------------
(* Mutations in flight.                                                     *)

Mutation(h, r) == [h |-> h, req |-> r, phase |-> "sent"]

CanIssue == Cardinality(muts) < MaxInflight

BumpId(n, r) == IF r.op = "insert" THEN [n EXCEPT ![r.table] = @ + 1] ELSE n

\* the store executes a write request, or rejects it
ServerWrite(m) ==
    /\ AutoStep
    /\ m \in muts /\ m.phase = "sent"
    /\ \/ /\ m.req.op = "insert" => nextId[m.req.table] < MaxId
          /\ db' = Execute(db, nextId, m.req)
          /\ nextId' = BumpId(nextId, m.req)
          /\ muts' = (muts \ {m}) \cup {[m EXCEPT !.phase = "ok"]}
       \/ /\ muts' = (muts \ {m}) \cup {[m EXCEPT !.phase = "err"]}
          /\ UNCHANGED <<db, nextId>>
    /\ last' = Event(m.req.op, m.req.table, m.req.id)
    /\ toasts' = <<>> /\ issued' = {} /\ invalidated' = {}
    /\ UNCHANGED <<page, q, idx, prg, fnd, exp>>

-----------------------------------------------------------------------------
(* What a list page shows.                                                  *)

\* useQuery's isLoading: no result yet and the first fetch still running
IsLoading(key) == q[key].status = "pending"

\* the rows of a query's data; undefined data has none
Data(key) == IF q[key].has THEN q[key].rows ELSE {}

-----------------------------------------------------------------------------
(* The Index page (programs list with create form and edit dialog) and its  *)
(* first version, which has the create form only.                           *)

IndexStatusOptions == {"active", "on hold"}

IndexInit == [isCreating |-> FALSE, newProgramName |-> "", newProgramBudget |-> "",
              isEditing |-> FALSE, editingProgram |-> Null,
              editProgramName |-> "", editProgramBudget |-> "",
              editProgramStatus |-> "active"]

OnIndex == page \in {"Index", "IndexFirst"}

\* no handler side effects other than local state
LocalOnly(act, key, id) ==
    /\ UserStep
    /\ last' = Event(act, key, id)
    /\ toasts' = <<>> /\ issued' = {} /\ invalidated' = {}
    /\ UNCHANGED <<page, db, nextId, q, muts>>

\* a required-field check that lets a form through when only one field is empty
ProgramFormIncompleteBoth(name, budget) == ~Truthy(name) /\ ~Truthy(budget)

\* the required-field check of the program forms: !name || !budget
ProgramFormIncomplete(name, budget) == ~Truthy(name) \/ ~Truthy(budget)

IndexOpenCreate ==
    /\ OnIndex
    /\ idx' = [idx EXCEPT !.isCreating = TRUE]
    /\ LocalOnly("IndexOpenCreate", "programs", NoId)
    /\ UNCHANGED <<prg, fnd, exp>>

IndexCancelCreate ==
    /\ OnIndex /\ idx.isCreating
    /\ idx' = [idx EXCEPT !.isCreating = FALSE]
    /\ LocalOnly("IndexCancelCreate", "programs", NoId)
    /\ UNCHANGED <<prg, fnd, exp>>

IndexTypeNew ==
    /\ OnIndex /\ idx.isCreating
    /\ \E n \in NameInputs, b \in BudgetInputs :
         /\ <<n, b>> # <<idx.newProgramName, idx.newProgramBudget>>
         /\ idx' = [idx EXCEPT !.newProgramName = n, !.newProgramBudget = b]
    /\ LocalOnly("IndexTypeNew", "programs", NoId)
    /\ UNCHANGED <<prg, fnd, exp>>

IndexInsertRequest(i) ==
    Request("insert", "programs", AnyId, AnyS, AnyId, AnyS, {"*"},
            [name |-> i.newProgramName, budget |-> ParseFloat(i.newProgramBudget),
             user_id |-> Me])

\* handleCreateProgram up to its await
HandleCreateProgram ==
    /\ UserStep
    /\ OnIndex /\ idx.isCreating
    /\ IF ProgramFormIncomplete(idx.newProgramName, idx.newProgramBudget)
       THEN /\ toasts' = <<Toast("destructive", "Missing information")>>
            /\ issued' = {}
            /\ UNCHANGED muts
       ELSE /\ CanIssue
            /\ muts' = muts \cup {Mutation("handleCreateProgram", IndexInsertRequest(idx))}
            /\ issued' = {IndexInsertRequest(idx)}
            /\ toasts' = <<>>
    /\ last' = Event("handleCreateProgram", "programs", NoId)
    /\ invalidated' = {}
    /\ UNCHANGED <<page, db, nextId, q, idx, prg, fnd, exp>>

\* the keys handleCreateProgram invalidates once the insert has succeeded
CreateProgramInvalidates(p) == IF p = "Index" THEN {"programs"} ELSE {}

\* handleCreateProgram after its await
CreateProgramSettled(m) ==
    /\ AutoStep
    /\ m \in muts /\ m.h = "handleCreateProgram" /\ m.phase \in {"ok", "err"}
    /\ muts' = muts \ {m}
    /\ IF m.phase = "ok"
       THEN /\ idx' = [idx EXCEPT !.newProgramName = "", !.newProgramBudget = "",
                                  !.isCreating = FALSE]
            /\ q' = Invalidate(CreateProgramInvalidates(page), exp)
            /\ invalidated' = CreateProgramInvalidates(page)
            /\ issued' = InvalidateRequests(CreateProgramInvalidates(page), exp)
            /\ toasts' = <<Toast("default", "Success")>>
       ELSE /\ toasts' = <<Toast("destructive", "Error creating program")>>
            /\ invalidated' = {} /\ issued' = {}
            /\ UNCHANGED <<idx, q>>
    /\ last' = Event(IF m.phase = "ok" THEN "createProgramSucceeded" ELSE "createProgramFailed",
                     "programs", NoId)
    /\ UNCHANGED <<page, db, nextId, prg, fnd, exp>>

\* the programs the Index page lists, each with its Edit and Delete buttons
IndexListed == IF IsLoading("programs") THEN {} ELSE Data("programs")


\* what the Index page renders as its list
IndexView ==
    IF IsLoading("programs") THEN "loading"
    ELSE IF q["programs"].has /\ Cardinality(q["programs"].rows) = 0 THEN "empty"
    ELSE "populated"

HandleOpenEditDialog ==
    /\ page = "Index"
    /\ \E program \in IndexListed :
         /\ idx' = [idx EXCEPT !.editingProgram = program,
                               !.editProgramName = program.name,
                               !.editProgramBudget = NumToString(program.budget),
                               !.editProgramStatus = program.status,
                               !.isEditing = TRUE]
         /\ LocalOnly("handleOpenEditDialog", "programs", program.id)
    /\ UNCHANGED <<prg, fnd, exp>>

IndexCancelEdit ==
    /\ page = "Index" /\ idx.isEditing
    /\ idx' = [idx EXCEPT !.isEditing = FALSE]
    /\ LocalOnly("IndexCancelEdit", "programs", NoId)
    /\ UNCHANGED <<prg, fnd, exp>>

IndexTypeEdit ==
    /\ page = "Index" /\ idx.isEditing
    /\ \E n \in NameInputs, b \in BudgetInputs, st \in IndexStatusOptions :
         /\ <<n, b, st>> # <<idx.editProgramName, idx.editProgramBudget, idx.editProgramStatus>>
         /\ idx' = [idx EXCEPT !.editProgramName = n, !.editProgramBudget = b,
                               !.editProgramStatus = st]
    /\ LocalOnly("IndexTypeEdit", "programs", NoId)
    /\ UNCHANGED <<prg, fnd, exp>>

IndexUpdateRequest(i) ==
    Request("update", "programs", i.editingProgram.id, AnyS, AnyId, AnyS, {"*"},
            [name |-> i.editProgramName, budget |-> ParseFloat(i.editProgramBudget),
             status |-> i.editProgramStatus])

\* handleUpdateProgram up to its await
HandleUpdateProgram ==
    /\ UserStep
    /\ page = "Index" /\ idx.isEditing
    /\ IF ProgramFormIncomplete(idx.editProgramName, idx.editProgramBudget)
       THEN /\ toasts' = <<Toast("destructive", "Missing information")>>
            /\ issued' = {}
            /\ UNCHANGED muts
       ELSE IF idx.editingProgram = Null
       THEN \* editingProgram.id throws inside the try block
            /\ toasts' = <<Toast("destructive", "Error updating program")>>
            /\ issued' = {}
            /\ UNCHANGED muts
       ELSE /\ CanIssue
            /\ muts' = muts \cup {Mutation("handleUpdateProgram", IndexUpdateRequest(idx))}
            /\ issued' = {IndexUpdateRequest(idx)}
            /\ toasts' = <<>>
    /\ last' = Event("handleUpdateProgram", "programs", NoId)
    /\ invalidated' = {}
    /\ UNCHANGED <<page, db, nextId, q, idx, prg, fnd, exp>>

\* handleUpdateProgram after its await
UpdateProgramSettled(m) ==
    /\ AutoStep
    /\ m \in muts /\ m.h = "handleUpdateProgram" /\ m.phase \in {"ok", "err"}
    /\ muts' = muts \ {m}
    /\ IF m.phase = "ok"
       THEN /\ idx' = [idx EXCEPT !.isEditing = FALSE, !.editingProgram = Null]
            /\ q' = Invalidate({"programs"}, exp)
            /\ invalidated' = {"programs"}
            /\ issued' = InvalidateRequests({"programs"}, exp)
            /\ toasts' = <<Toast("default", "Success")>>
       ELSE /\ toasts' = <<Toast("destructive", "Error updating program")>>
            /\ invalidated' = {} /\ issued' = {}
            /\ UNCHANGED <<idx, q>>
    /\ last' = Event(IF m.phase = "ok" THEN "updateProgramSucceeded" ELSE "updateProgramFailed",
                     "programs", m.req.id)
    /\ UNCHANGED <<page, db, nextId, prg, fnd, exp>>

\* a delete handler that also removes the program's expenses
IndexDeleteRequestsCascade(programId) ==
    {Request("delete", "programs", programId, AnyS, AnyId, AnyS, {"*"}, NoValues),
     Request("delete", "expenses", AnyId, AnyS, programId, AnyS, {"*"}, NoValues)}

\* the requests handleDeleteProgram sends
IndexDeleteRequests(programId) ==
    {Request("delete", "programs", programId, AnyS, AnyId, AnyS, {"*"}, NoValues)}

\* handleDeleteProgram up to its await
HandleDeleteProgram ==
    /\ UserStep
    /\ page = "Index"
    /\ \E program \in IndexListed :
         /\ CanIssue
         /\ muts' = muts \cup {Mutation("handleDeleteProgram", r) : r \in IndexDeleteRequests(program.id)}
         /\ issued' = IndexDeleteRequests(program.id)
         /\ last' = Event("handleDeleteProgram", "programs", program.id)
    /\ toasts' = <<>> /\ invalidated' = {}
    /\ UNCHANGED <<page, db, nextId, q, idx, prg, fnd, exp>>

\* a delete handler that forgets to invalidate
DeleteProgramInvalidatesNone == {}

\* the keys a delete handler invalidates once its request has succeeded
DeleteProgramInvalidates == {"programs"}

\* handleDeleteProgram after its await
DeleteProgramSettled(m) ==
    /\ AutoStep
    /\ m \in muts /\ m.h = "handleDeleteProgram" /\ m.phase \in {"ok", "err"}
    /\ muts' = muts \ {m}
    /\ IF m.phase = "ok"
       THEN /\ q' = Invalidate(DeleteProgramInvalidates, exp)
            /\ invalidated' = DeleteProgramInvalidates
            /\ issued' = InvalidateRequests(DeleteProgramInvalidates, exp)
            /\ toasts' = <<Toast("default", "Success")>>
       ELSE /\ toasts' = <<Toast("destructive", "Error deleting program")>>
            /\ invalidated' = {} /\ issued' = {}
            /\ UNCHANGED q
    /\ last' = Event(IF m.phase = "ok" THEN "deleteProgramSucceeded" ELSE "deleteProgramFailed",
                     "programs", m.req.id)
    /\ UNCHANGED <<page, db, nextId, idx, prg, fnd, exp>>

-----------------------------------------------------------------------------
(* The Programs page (table of programs with one add/edit dialog).          *)

ProgramsStatusOptions == {"active", "on-hold"}

EmptyProgramForm == [name |-> "", budget |-> "", status |-> "active"]

ProgramsInit == [isOpen |-> FALSE, isEditMode |-> FALSE, currentProgramId |-> NoId,
                 formData |-> EmptyProgramForm]

\* a resetForm that leaves the program id behind
ProgramsResetFormKeepsId(s) ==
    [s EXCEPT !.formData = EmptyProgramForm, !.isEditMode = FALSE]

\* resetForm
ProgramsResetForm(s) ==
    [s EXCEPT !.formData = EmptyProgramForm, !.isEditMode = FALSE, !.currentProgramId = NoId]

\* the Add Program buttons: resetForm(); setIsOpen(true)
ProgramsAdd ==
    /\ page = "Programs"
    /\ prg' = [ProgramsResetForm(prg) EXCEPT !.isOpen = TRUE]
    /\ LocalOnly("ProgramsAdd", "programs", NoId)
    /\ UNCHANGED <<idx, fnd, exp>>

\* the dialog's Cancel button: resetForm(); setIsOpen(false)
ProgramsCancel ==
    /\ page = "Programs" /\ prg.isOpen
    /\ prg' = [ProgramsResetForm(prg) EXCEPT !.isOpen = FALSE]
    /\ LocalOnly("ProgramsCancel", "programs", NoId)
    /\ UNCHANGED <<idx, fnd, exp>>

\* the dialog is dismissed (Escape, overlay click): onOpenChange(false)
ProgramsDismiss ==
    /\ page = "Programs" /\ prg.isOpen
    /\ prg' = [prg EXCEPT !.isOpen = FALSE]
    /\ LocalOnly("ProgramsDismiss", "programs", NoId)
    /\ UNCHANGED <<idx, fnd, exp>>

ProgramsType ==
    /\ page = "Programs" /\ prg.isOpen
    /\ \E n \in NameInputs, b \in BudgetInputs, st \in ProgramsStatusOptions :
         /\ [name |-> n, budget |-> b, status |-> st] # prg.formData
         /\ prg' = [prg EXCEPT !.formData = [name |-> n, budget |-> b, status |-> st]]
    /\ LocalOnly("ProgramsType", "programs", NoId)
    /\ UNCHANGED <<idx, fnd, exp>>

\* what the Programs page renders below its header
ProgramsView ==
    IF IsLoading("programs") THEN "loading"
    ELSE IF q["programs"].status = "error" THEN "error"
    ELSE IF q["programs"].has /\ Cardinality(q["programs"].rows) > 0 THEN "populated"
    ELSE "empty"

ProgramsListed == IF ProgramsView = "populated" THEN q["programs"].rows ELSE {}

HandleEditProgram ==
    /\ page = "Programs"
    /\ \E program \in ProgramsListed :
         /\ prg' = [formData |-> [name |-> program.name,
                                  budget |-> NumToString(program.budget),
                                  status |-> program.status],
                    isEditMode |-> TRUE, currentProgramId |-> program.id, isOpen |-> TRUE]
         /\ LocalOnly("handleEditProgram", "programs", program.id)
    /\ UNCHANGED <<idx, fnd, exp>>

ProgramsInsertRequest(f) ==
    Request("insert", "programs", AnyId, AnyS, AnyId, AnyS, {"*"},
            [name |-> f.name, budget |-> ParseFloat(f.budget), status |-> f.status,
             user_id |-> Me])

ProgramsUpdateRequest(id, f) ==
    Request("update", "programs", id, Me, AnyId, AnyS, {"*"},
            [name |-> f.name, budget |-> ParseFloat(f.budget), status |-> f.status])

\* the mutation handleSubmit starts for a form that passed its check
ProgramsSubmitMutation(s) ==
    IF s.isEditMode /\ s.currentProgramId # NoId
    THEN Mutation("updateProgram", ProgramsUpdateRequest(s.currentProgramId, s.formData))
    ELSE Mutation("createProgram", ProgramsInsertRequest(s.formData))

\* handleSubmit of the Programs page
ProgramsHandleSubmit ==
    /\ UserStep
    /\ page = "Programs" /\ prg.isOpen
    /\ IF ProgramFormIncomplete(prg.formData.name, prg.formData.budget)
       THEN /\ toasts' = <<Toast("error", "Please fill in all required fields")>>
            /\ issued' = {}
            /\ UNCHANGED muts
       ELSE /\ CanIssue
            /\ muts' = muts \cup {ProgramsSubmitMutation(prg)}
            /\ issued' = {ProgramsSubmitMutation(prg).req}
            /\ toasts' = <<>>
    /\ last' = Event("handleSubmit", "programs", prg.currentProgramId)
    /\ invalidated' = {}
    /\ UNCHANGED <<page, db, nextId, q, idx, prg, fnd, exp>>

\* an onError that also closes and clears the form
ProgramsOnErrorReset(s) == [ProgramsResetForm(s) EXCEPT !.isOpen = FALSE]

\* onError of createProgram and of updateProgram: a toast, the form is left alone
ProgramsOnError(s) == s

\* onSuccess / onError of createProgram and of updateProgram
ProgramsSaveSettled(m) ==
    /\ AutoStep
    /\ m \in muts /\ m.h \in {"createProgram", "updateProgram"} /\ m.phase \in {"ok", "err"}
    /\ muts' = muts \ {m}
    /\ IF m.phase = "ok"
       THEN /\ q' = Invalidate({"programs"}, exp)
            /\ invalidated' = {"programs"}
            /\ issued' = InvalidateRequests({"programs"}, exp)
            /\ toasts' = <<Toast("success", "Program saved successfully")>>
            /\ prg' = [ProgramsResetForm(prg) EXCEPT !.isOpen = FALSE]
       ELSE /\ toasts' = <<Toast("error", "Failed to save program")>>
            /\ invalidated' = {} /\ issued' = {}
            /\ prg' = ProgramsOnError(prg)
            /\ UNCHANGED q
    /\ last' = Event(IF m.phase = "ok" THEN m.h \o "Succeeded" ELSE m.h \o "Failed",
                     "programs", m.req.id)
    /\ UNCHANGED <<page, db, nextId, idx, fnd, exp>>

\* the requests deleteProgram's mutationFn sends
ProgramsDeleteRequests(id) ==
    {Request("delete", "programs", id, Me, AnyId, AnyS, {"*"}, NoValues)}

\* deleteProgram.mutate(program.id)
ProgramsDelete ==
    /\ UserStep
    /\ page = "Programs"
    /\ \E program \in ProgramsListed :
         /\ CanIssue
         /\ muts' = muts \cup {Mutation("deleteProgram", r) : r \in ProgramsDeleteRequests(program.id)}
         /\ issued' = ProgramsDeleteRequests(program.id)
         /\ last' = Event("deleteProgram", "programs", program.id)
    /\ toasts' = <<>> /\ invalidated' = {}
    /\ UNCHANGED <<page, db, nextId, q, idx, prg, fnd, exp>>

\* onSuccess / onError of deleteProgram
ProgramsDeleteSettled(m) ==
    /\ AutoStep
    /\ m \in muts /\ m.h = "deleteProgram" /\ m.phase \in {"ok", "err"}
    /\ muts' = muts \ {m}
    /\ IF m.phase = "ok"
       THEN /\ q' = Invalidate(DeleteProgramInvalidates, exp)
            /\ invalidated' = DeleteProgramInvalidates
            /\ issued' = InvalidateRequests(DeleteProgramInvalidates, exp)
            /\ toasts' = <<Toast("success", "Program deleted successfully")>>
       ELSE /\ toasts' = <<Toast("error", "Failed to delete program")>>
            /\ invalidated' = {} /\ issued' = {}
            /\ UNCHANGED q
    /\ last' = Event(IF m.phase = "ok" THEN "deleteProgramSucceeded" ELSE "deleteProgramFailed",
                     "programs", m.req.id)
    /\ UNCHANGED <<page, db, nextId, idx, prg, fnd, exp>>

-----------------------------------------------------------------------------
(* The Funding page (table of funding rows with add, edit and delete        *)
(* dialogs sharing one form).                                               *)

FundingTypeOptions == {"Grant", "Other"}
SourceInputs == {"", "s"}
AmountInputs == {0, 5}

\* formData.program_id is undefined until a program is chosen
Undefined == NoId

EmptyFundingForm == [source |-> "", amount |-> 0, type |-> "Grant", program_id |-> Undefined]

FundingInit == [isAddDialogOpen |-> FALSE, isEditDialogOpen |-> FALSE,
                isDeleteDialogOpen |-> FALSE, formData |-> EmptyFundingForm,
                selectedFunding |-> Null]

\* resetForm of the Funding page
FundingResetForm(s) == [s EXCEPT !.formData = EmptyFundingForm, !.selectedFunding = Null]

\* the columns a funding form sends: an undefined program_id is left out
FundingValues(f) ==
    IF f.program_id = Undefined
    THEN [source |-> f.source, amount |-> f.amount, type |-> f.type]
    ELSE [source |-> f.source, amount |-> f.amount, type |-> f.type,
          program_id |-> f.program_id]

\* what the Funding page renders as its table
FundingView ==
    IF IsLoading("funding") THEN "loading"
    ELSE IF q["funding"].has /\ Cardinality(q["funding"].rows) > 0 THEN "populated"
    ELSE "empty"

FundingListed == IF FundingView = "populated" THEN q["funding"].rows ELSE {}

\* the values of the program select: "none" maps to the empty string
FundingProgramOptions == {EmptyId} \cup {p.id : p \in Data("programs")}

\* value={formData.program_id || "none"}: what the program select shows
FundingSelectValue(id) == IF id = Undefined \/ id = EmptyId THEN EmptyId ELSE id

\* the dialogs are modal: the page behind an open dialog takes no clicks
FundingDialogOpen == fnd.isAddDialogOpen \/ fnd.isEditDialogOpen \/ fnd.isDeleteDialogOpen

FundingAdd ==
    /\ page = "Funding" /\ ~FundingDialogOpen
    /\ fnd' = [FundingResetForm(fnd) EXCEPT !.isAddDialogOpen = TRUE]
    /\ LocalOnly("FundingAdd", "funding", NoId)
    /\ UNCHANGED <<idx, prg, exp>>

\* a dialog of the Funding page is closed: onOpenChange(false)
FundingDismiss ==
    /\ page = "Funding"
    /\ \/ fnd.isAddDialogOpen /\ fnd' = [fnd EXCEPT !.isAddDialogOpen = FALSE]
       \/ fnd.isEditDialogOpen /\ fnd' = [fnd EXCEPT !.isEditDialogOpen = FALSE]
       \/ fnd.isDeleteDialogOpen /\ fnd' = [fnd EXCEPT !.isDeleteDialogOpen = FALSE]
    /\ LocalOnly("FundingDismiss", "funding", NoId)
    /\ UNCHANGED <<idx, prg, exp>>

\* handleInputChange / handleSelectChange
FundingType ==
    /\ page = "Funding" /\ (fnd.isAddDialogOpen \/ fnd.isEditDialogOpen)
    /\ \/ \E v \in SourceInputs : v # fnd.formData.source
             /\ fnd' = [fnd EXCEPT !.formData.source = v]
       \/ \E v \in AmountInputs : v # fnd.formData.amount
             /\ fnd' = [fnd EXCEPT !.formData.amount = v]
       \/ \E v \in FundingTypeOptions : v # fnd.formData.type
             /\ fnd' = [fnd EXCEPT !.formData.type = v]
       \/ \E v \in FundingProgramOptions :
             FundingSelectValue(v) # FundingSelectValue(fnd.formData.program_id)
             /\ fnd' = [fnd EXCEPT !.formData.program_id = v]
    /\ LocalOnly("FundingType", "funding", NoId)
    /\ UNCHANGED <<idx, prg, exp>>

OpenEditDialog ==
    /\ page = "Funding" /\ ~FundingDialogOpen
    /\ \E f \in FundingListed :
         /\ fnd' = [fnd EXCEPT !.selectedFunding = f,
                               !.formData = [source |-> f.source, amount |-> f.amount,
                                             type |-> f.type,
                                             program_id |-> IF f.program_id = NoId
                                                            THEN Undefined ELSE f.program_id],
                               !.isEditDialogOpen = TRUE]
         /\ LocalOnly("openEditDialog", "funding", f.id)
    /\ UNCHANGED <<idx, prg, exp>>

OpenDeleteDialog ==
    /\ page = "Funding" /\ ~FundingDialogOpen
    /\ \E f \in FundingListed :
         /\ fnd' = [fnd EXCEPT !.selectedFunding = f, !.isDeleteDialogOpen = TRUE]
         /\ LocalOnly("openDeleteDialog", "funding", f.id)
    /\ UNCHANGED <<idx, prg, exp>>

FundingInsertRequest(f) ==
    Request("insert", "funding", AnyId, AnyS, AnyId, AnyS, {"*"},
            FundingValues(f) @@ [user_id |-> Me])

FundingUpdateRequest(id, f) ==
    Request("update", "funding", id, Me, AnyId, AnyS, {"*"}, FundingValues(f))

FundingDeleteRequest(id) ==
    Request("delete", "funding", id, Me, AnyId, AnyS, {"*"}, NoValues)

FundingStart(h, r, id) ==
    /\ UserStep
    /\ CanIssue
    /\ muts' = muts \cup {Mutation(h, r)}
    /\ issued' = {r}
    /\ last' = Event(h, "funding", id)
    /\ toasts' = <<>> /\ invalidated' = {}
    /\ UNCHANGED <<page, db, nextId, q, idx, prg, fnd, exp>>

\* handleAddSubmit
HandleAddSubmit ==
    /\ page = "Funding" /\ fnd.isAddDialogOpen
    /\ FundingStart("createFunding", FundingInsertRequest(fnd.formData), NoId)

\* handleEditSubmit
HandleEditSubmit ==
    /\ page = "Funding" /\ fnd.isEditDialogOpen
    /\ fnd.selectedFunding # Null
    /\ FundingStart("updateFunding",
                    FundingUpdateRequest(fnd.selectedFunding.id, fnd.formData),
                    fnd.selectedFunding.id)

\* handleDelete
HandleDelete ==
    /\ page = "Funding" /\ fnd.isDeleteDialogOpen
    /\ fnd.selectedFunding # Null
    /\ FundingStart("deleteFunding", FundingDeleteRequest(fnd.selectedFunding.id),
                    fnd.selectedFunding.id)

\* the local state after a funding mutation's onSuccess
FundingOnSuccess(h, s) ==
    CASE h = "createFunding" -> FundingResetForm([s EXCEPT !.isAddDialogOpen = FALSE])
      [] h = "updateFunding" -> FundingResetForm([s EXCEPT !.isEditDialogOpen = FALSE])
      [] h = "deleteFunding" -> [s EXCEPT !.isDeleteDialogOpen = FALSE,
                                          !.selectedFunding = Null]

\* onSuccess / onError of createFunding, updateFunding and deleteFunding
FundingSettled(m) ==
    /\ AutoStep
    /\ m \in muts /\ m.h \in {"createFunding", "updateFunding", "deleteFunding"}
    /\ m.phase \in {"ok", "err"}
    /\ muts' = muts \ {m}
    /\ IF m.phase = "ok"
       THEN /\ q' = Invalidate({"funding"}, exp)
            /\ invalidated' = {"funding"}
            /\ issued' = InvalidateRequests({"funding"}, exp)
            /\ fnd' = FundingOnSuccess(m.h, fnd)
            /\ toasts' = <<Toast("success", "Funding saved successfully")>>
       ELSE /\ toasts' = <<Toast("error", "Failed to save funding")>>
            /\ invalidated' = {} /\ issued' = {}
            /\ UNCHANGED <<fnd, q>>
    /\ last' = Event(IF m.phase = "ok" THEN m.h \o "Succeeded" ELSE m.h \o "Failed",
                     "funding", m.req.id)
    /\ UNCHANGED <<page, db, nextId, idx, prg, exp>>

-----------------------------------------------------------------------------
(* The Expenses page (list of expenses with create form, edit dialog and    *)
(* filter dialog).                                                          *)

CategoryOptions == {"Equipment", "Travel"}
ExpenseStatusOptions == {"pending", "approved"}
AmountStrInputs == {"", "5"}
TextInputs == {"", "t"}

EmptyExpenseForm == [amount |-> "", description |-> "", date |-> "2024-01-01",
                     category |-> "Equipment", payment_method |-> "Credit Card",
                     payee |-> "", program_id |-> EmptyId, status |-> "pending"]

ExpensesInit == [isCreating |-> FALSE, newExpense |-> EmptyExpenseForm,
                 isEditing |-> FALSE, editingExpense |-> Null,
                 filterProgramId |-> NoId, filterCategory |-> "",
                 isFilterOpen |-> FALSE]

\* what the Expenses page renders as its list
ExpensesView ==
    IF IsLoading("expenses") THEN "loading"
    ELSE IF ~q["expenses"].has \/ Cardinality(q["expenses"].rows) = 0 THEN "empty"
    ELSE "populated"

ExpensesListed == IF ExpensesView = "populated" THEN q["expenses"].rows ELSE {}

\* the values of a program select of the Expenses page
ExpenseProgramOptions == {EmptyId} \cup {p.id : p \in Data("programs")}

\* the categories offered by the filter dialog
FilterCategories == {e.category : e \in Data("expenses")}

ExpensesLocal(act, id) ==
    /\ LocalOnly(act, "expenses", id)
    /\ UNCHANGED <<idx, prg, fnd>>

\* the New Expense button and the create form's Cancel button
ExpensesSetCreating ==
    /\ page = "Expenses"
    /\ exp' = [exp EXCEPT !.isCreating = ~@]
    /\ ExpensesLocal(IF exp.isCreating THEN "ExpensesCancelCreate" ELSE "ExpensesOpenCreate", NoId)

ExpensesTypeNew ==
    /\ page = "Expenses" /\ exp.isCreating
    /\ \/ \E v \in AmountStrInputs : v # exp.newExpense.amount
             /\ exp' = [exp EXCEPT !.newExpense.amount = v]
       \/ \E v \in TextInputs : v # exp.newExpense.description
             /\ exp' = [exp EXCEPT !.newExpense.description = v]
       \/ \E v \in TextInputs : v # exp.newExpense.payee
             /\ exp' = [exp EXCEPT !.newExpense.payee = v]
       \/ \E v \in ExpenseProgramOptions : v # exp.newExpense.program_id
             /\ exp' = [exp EXCEPT !.newExpense.program_id = v]
       \/ \E v \in ExpenseStatusOptions : v # exp.newExpense.status
             /\ exp' = [exp EXCEPT !.newExpense.status = v]
    /\ ExpensesLocal("ExpensesTypeNew", NoId)

ExpenseInsertRequest(n) ==
    Request("insert", "expenses", AnyId, AnyS, AnyId, AnyS, {"*"},
            [amount |-> ParseFloat(n.amount), description |-> n.description,
             category |-> n.category, payment_method |-> n.payment_method,
             payee |-> n.payee, program_id |-> OrNull(n.program_id),
             approval_status |-> n.status, user_id |-> Me])

\* an update that sends the edited expense object as it is
ExpenseUpdateRequestWhole(e) ==
    Request("update", "expenses", e.id, AnyS, AnyId, AnyS, {"*"}, e)

ExpenseUpdateRequest(e) ==
    Request("update", "expenses", e.id, AnyS, AnyId, AnyS, {"*"},
            [amount |-> e.amount, description |-> e.description,
             category |-> e.category, payment_method |-> e.payment_method,
             payee |-> e.payee, program_id |-> e.program_id,
             approval_status |-> e.status])

ExpenseDeleteRequest(id) ==
    Request("delete", "expenses", id, AnyS, AnyId, AnyS, {"*"}, NoValues)

ExpensesStart(h, r, id) ==
    /\ UserStep
    /\ CanIssue
    /\ muts' = muts \cup {Mutation(h, r)}
    /\ issued' = {r}
    /\ last' = Event(h, "expenses", id)
    /\ toasts' = <<>> /\ invalidated' = {}
    /\ UNCHANGED <<page, db, nextId, q, idx, prg, fnd, exp>>

\* handleCreateExpense
HandleCreateExpense ==
    /\ page = "Expenses" /\ exp.isCreating
    /\ IF \/ ~Truthy(exp.newExpense.amount) \/ ~Truthy(exp.newExpense.description)
          \/ ~Truthy(exp.newExpense.date) \/ ~Truthy(exp.newExpense.payee)
       THEN /\ UserStep
            /\ toasts' = <<Toast("error", "Please fill in all required fields")>>
            /\ issued' = {} /\ invalidated' = {}
            /\ last' = Event("handleCreateExpense", "expenses", NoId)
            /\ UNCHANGED <<page, db, nextId, q, muts, idx, prg, fnd, exp>>
       ELSE ExpensesStart("handleCreateExpense", ExpenseInsertRequest(exp.newExpense), NoId)

ExpensesOpenEditDialog ==
    /\ page = "Expenses"
    /\ \E e \in ExpensesListed :
         /\ exp' = [exp EXCEPT !.editingExpense = e, !.isEditing = TRUE]
         /\ ExpensesLocal("handleOpenEditDialog", e.id)

\* the edit dialog is cancelled or dismissed: setIsEditing(false)
ExpensesCancelEdit ==
    /\ page = "Expenses" /\ exp.isEditing
    /\ exp' = [exp EXCEPT !.isEditing = FALSE]
    /\ ExpensesLocal("ExpensesCancelEdit", NoId)

ExpensesTypeEdit ==
    /\ page = "Expenses" /\ exp.isEditing /\ exp.editingExpense # Null
    /\ \/ \E v \in AmountStrInputs : ParseFloat(v) # exp.editingExpense.amount
             /\ exp' = [exp EXCEPT !.editingExpense.amount = ParseFloat(v)]
       \/ \E v \in TextInputs : v # exp.editingExpense.payee
             /\ exp' = [exp EXCEPT !.editingExpense.payee = v]
       \/ \E v \in ExpenseProgramOptions : OrNull(v) # exp.editingExpense.program_id
             /\ exp' = [exp EXCEPT !.editingExpense.program_id = OrNull(v)]
       \/ \E v \in ExpenseStatusOptions : v # exp.editingExpense.status
             /\ exp' = [exp EXCEPT !.editingExpense.status = v]
    /\ ExpensesLocal("ExpensesTypeEdit", NoId)

\* an early return that also checks the edited fields
UpdateExpenseReturnsIfEmpty(e) ==
    \/ e = Null
    \/ e.amount = NaN \/ ~Truthy(e.description) \/ ~Truthy(e.payee)

\* if (!editingExpense) return;
UpdateExpenseReturns(e) == e = Null

\* handleUpdateExpense (the Save Changes button of the edit dialog)
HandleUpdateExpense ==
    /\ page = "Expenses" /\ exp.isEditing
    /\ IF UpdateExpenseReturns(exp.editingExpense)
       THEN /\ UserStep
            /\ toasts' = <<>> /\ issued' = {} /\ invalidated' = {}
            /\ last' = Event("handleUpdateExpense", "expenses", NoId)
            /\ UNCHANGED <<page, db, nextId, q, muts, idx, prg, fnd, exp>>
       ELSE ExpensesStart("handleUpdateExpense", ExpenseUpdateRequest(exp.editingExpense),
                          exp.editingExpense.id)

\* deleteMutation.mutate(expense.id)
ExpensesDelete ==
    /\ page = "Expenses"
    /\ \E e \in ExpensesListed :
         ExpensesStart("deleteExpense", ExpenseDeleteRequest(e.id), e.id)

\* an onSuccess that clears the edited expense and leaves the dialog open
ExpensesOnSuccessStaysOpen(h, s) ==
    CASE h = "handleCreateExpense" -> [s EXCEPT !.isCreating = FALSE,
                                                !.newExpense = EmptyExpenseForm]
      [] h = "handleUpdateExpense" -> [s EXCEPT !.editingExpense = Null]
      [] h = "deleteExpense" -> s

\* the local state after an expense mutation's onSuccess
ExpensesOnSuccess(h, s) ==
    CASE h = "handleCreateExpense" -> [s EXCEPT !.isCreating = FALSE,
                                                !.newExpense = EmptyExpenseForm]
      [] h = "handleUpdateExpense" -> [s EXCEPT !.isEditing = FALSE, !.editingExpense = Null]
      [] h = "deleteExpense" -> s

\* onSuccess / onError of createMutation, updateMutation and deleteMutation
ExpensesSettled(m) ==
    /\ AutoStep
    /\ m \in muts /\ m.h \in {"handleCreateExpense", "handleUpdateExpense", "deleteExpense"}
    /\ m.phase \in {"ok", "err"}
    /\ muts' = muts \ {m}
    /\ IF m.phase = "ok"
       THEN /\ q' = Invalidate({"expenses"}, exp)
            /\ invalidated' = {"expenses"}
            /\ issued' = InvalidateRequests({"expenses"}, exp)
            /\ exp' = ExpensesOnSuccess(m.h, exp)
            /\ toasts' = <<Toast("success", "Expense saved successfully")>>
       ELSE /\ toasts' = <<Toast("error", "Error saving expense")>>
            /\ invalidated' = {} /\ issued' = {}
            /\ UNCHANGED <<exp, q>>
    /\ last' = Event(IF m.phase = "ok" THEN m.h \o "Succeeded" ELSE m.h \o "Failed",
                     "expenses", m.req.id)
    /\ UNCHANGED <<page, db, nextId, idx, prg, fnd>>

ExpensesOpenFilter ==
    /\ page = "Expenses" /\ ~exp.isFilterOpen
    /\ exp' = [exp EXCEPT !.isFilterOpen = TRUE]
    /\ ExpensesLocal("ExpensesOpenFilter", NoId)

\* the filter dialog's selects
ExpensesChooseFilter ==
    /\ page = "Expenses" /\ exp.isFilterOpen
    /\ \/ \E v \in {NoId} \cup {p.id : p \in Data("programs")} : v # exp.filterProgramId
             /\ exp' = [exp EXCEPT !.filterProgramId = v]
       \/ \E v \in {""} \cup FilterCategories : v # exp.filterCategory
             /\ exp' = [exp EXCEPT !.filterCategory = v]
    /\ ExpensesLocal("ExpensesChooseFilter", NoId)

\* the Apply Filters button; the refetch runs the queryFn of the last render
ApplyFilters ==
    /\ UserStep
    /\ page = "Expenses" /\ exp.isFilterOpen
    /\ exp' = [exp EXCEPT !.isFilterOpen = FALSE]
    /\ q' = Invalidate({"expenses"}, exp)
    /\ invalidated' = {"expenses"}
    /\ issued' = InvalidateRequests({"expenses"}, exp)
    /\ last' = Event("ApplyFilters", "expenses", NoId)
    /\ toasts' = <<>>
    /\ UNCHANGED <<page, db, nextId, muts, idx, prg, fnd>>

\* resetFilters; the refetch runs the queryFn of the last render
ResetFilters ==
    /\ UserStep
    /\ page = "Expenses"
    /\ exp.isFilterOpen \/ (ExpensesView = "populated"
                            /\ (exp.filterProgramId # NoId \/ exp.filterCategory # ""))
    /\ exp' = [exp EXCEPT !.filterProgramId = NoId, !.filterCategory = "",
                          !.isFilterOpen = FALSE]
    /\ q' = Invalidate({"expenses"}, exp)
    /\ invalidated' = {"expenses"}
    /\ issued' = InvalidateRequests({"expenses"}, exp)
    /\ last' = Event("resetFilters", "expenses", NoId)
    /\ toasts' = <<>>
    /\ UNCHANGED <<page, db, nextId, muts, idx, prg, fnd>>

-----------------------------------------------------------------------------
(* The pages against the store.                                             *)

InitialDb ==
    [programs |-> {ProgramRow(1, "u1", "a", 5, "active"),
                   ProgramRow(2, "u2", "a", 5, "active")},
     expenses |-> {ExpenseRow(1, "u1", 5, "Equipment", 1, "pending"),
                   ExpenseRow(2, "u2", 5, "Travel", 2, "")},
     funding |-> {FundingRow(1, "u1", 5, "Grant", 1),
                  FundingRow(2, "u2", 5, "Other", NoId)}]

\* a page is mounted: every query it declares starts its first fetch
Init ==
    /\ page \in Pages
    /\ db = InitialDb
    /\ nextId = [t \in Tables |-> 3]
    /\ q = [k \in Keys |-> IF k \in PageQueries(page)
                           THEN [IdleQuery EXCEPT !.fetch = "sent",
                                                  !.req = QueryRequest(page, k, ExpensesInit)]
                           ELSE IdleQuery]
    /\ muts = {}
    /\ steps = 0
    /\ dash = Null /\ ps = Null /\ lay = Null /\ prof = Null
    /\ idx = IndexInit /\ prg = ProgramsInit /\ fnd = FundingInit /\ exp = ExpensesInit
    /\ last = Event("mount", "", NoId)
    /\ toasts = <<>>
    /\ issued = {QueryRequest(page, k, ExpensesInit) : k \in PageQueries(page)}
    /\ invalidated = {}

Next ==
    \/ \E key \in Keys : ServerRead(key)
    \/ \E key \in Keys : QuerySettled(key)
    \/ \E m \in muts : ServerWrite(m)
    \/ IndexOpenCreate
    \/ IndexCancelCreate
    \/ IndexTypeNew
    \/ HandleCreateProgram
    \/ \E m \in muts : CreateProgramSettled(m)
    \/ HandleOpenEditDialog
    \/ IndexCancelEdit
    \/ IndexTypeEdit
    \/ HandleUpdateProgram
    \/ \E m \in muts : UpdateProgramSettled(m)
    \/ HandleDeleteProgram
    \/ \E m \in muts : DeleteProgramSettled(m)
    \/ ProgramsAdd
    \/ ProgramsCancel
    \/ ProgramsDismiss
    \/ ProgramsType
    \/ HandleEditProgram
    \/ ProgramsHandleSubmit
    \/ \E m \in muts : ProgramsSaveSettled(m)
    \/ ProgramsDelete
    \/ \E m \in muts : ProgramsDeleteSettled(m)
    \/ FundingAdd
    \/ FundingDismiss
    \/ FundingType
    \/ OpenEditDialog
    \/ OpenDeleteDialog
    \/ HandleAddSubmit
    \/ HandleEditSubmit
    \/ HandleDelete
    \/ \E m \in muts : FundingSettled(m)
    \/ ExpensesSetCreating
    \/ ExpensesTypeNew
    \/ HandleCreateExpense
    \/ ExpensesOpenEditDialog
    \/ ExpensesCancelEdit
    \/ ExpensesTypeEdit
    \/ HandleUpdateExpense
    \/ ExpensesDelete
    \/ \E m \in muts : ExpensesSettled(m)
    \/ ExpensesOpenFilter
    \/ ExpensesChooseFilter
    \/ ApplyFilters
    \/ ResetFilters

Spec == Init /\ [][Next]_vars

-----------------------------------------------------------------------------
(* Properties of the list pages.                                            *)

WriteOps == {"insert", "update", "delete"}

\* the step issued no request, started no mutation and wrote nothing
NothingSent == issued' = {} /\ muts' = muts /\ db' = db /\ q' = q

C1_Step ==
    /\ (/\ last'.act = "handleCreateProgram"
        /\ (idx.newProgramName = "" \/ idx.newProgramBudget = ""))
         => (NothingSent /\ idx' = idx /\ idx'.isCreating)
    /\ (/\ last'.act = "handleUpdateProgram"
        /\ (idx.editProgramName = "" \/ idx.editProgramBudget = ""))
         => (NothingSent /\ idx' = idx /\ idx'.isEditing)
    /\ (/\ last'.act = "handleSubmit"
        /\ (prg.formData.name = "" \/ prg.formData.budget = ""))
         => (NothingSent /\ prg' = prg /\ prg'.isOpen)

\* C1: when a program create/update handler (handleCreateProgram and
\* handleUpdateProgram of the Index pages, handleSubmit of the Programs page)
\* runs with an empty name or an empty budget, it issues no request, starts no
\* mutation, and leaves the form open with its field values unchanged.
C1_EmptyRequiredFieldBlocksSubmit == [][C1_Step]_vars

\* C1 witness: Save Changes was pressed with a name but an empty budget, and
\* the edit dialog is still open with nothing sent.
C1_Witness ==
    /\ last.act = "handleUpdateProgram"
    /\ idx.editProgramName = "a" /\ idx.editProgramBudget = ""
    /\ idx.isEditing /\ issued = {} /\ muts = {}
    /\ Len(toasts) = 1

ProgramIds(rows) == {r.id : r \in rows}

\* programs that a succeeded delete removed and whose handler has finished
SettledDeleted ==
    {i \in 1..MaxId :
        /\ i < nextId["programs"]
        /\ i \notin ProgramIds(db["programs"])
        /\ ~\E m \in muts : m.req.op = "delete" /\ m.req.table = "programs" /\ m.req.id = i}

ProgramsFetched == q["programs"].fetch = "idle" /\ q["programs"].status = "success"

C2_Listed == ProgramsFetched => SettledDeleted \cap ProgramIds(Data("programs")) = {}

C2_Step ==
    last'.act = "deleteProgramSucceeded"
        => ("programs" \in invalidated' /\ q'["programs"].fetch = "sent")

\* C2: when a delete of a program succeeds the handler invalidates the
\* "programs" query, which starts a refetch, and once the query has fetched
\* successfully again the displayed list holds no row with the deleted id.
C2_DeletedProgramLeavesList == []C2_Listed /\ [][C2_Step]_vars

\* C2 witness: a program was deleted, the refetch has completed, and the list
\* no longer shows it.
C2_Witness ==
    /\ last.act = "QuerySucceeded" /\ last.key = "programs"
    /\ ProgramsFetched
    /\ SettledDeleted # {}
    /\ SettledDeleted \cap ProgramIds(Data("programs")) = {}

SucceededActs ==
    {"createProgramSucceeded", "updateProgramSucceeded", "deleteProgramSucceeded",
     "createFundingSucceeded", "updateFundingSucceeded", "deleteFundingSucceeded",
     "handleCreateExpenseSucceeded", "handleUpdateExpenseSucceeded", "deleteExpenseSucceeded"}

FailedActs ==
    {"createProgramFailed", "updateProgramFailed", "deleteProgramFailed",
     "createFundingFailed", "updateFundingFailed", "deleteFundingFailed",
     "handleCreateExpenseFailed", "handleUpdateExpenseFailed", "deleteExpenseFailed"}

\* C4: in every page variant, the continuation of a succeeded insert, update
\* or delete against a table invalidates the query keyed by that table.
C4_MutationInvalidatesItsTable ==
    [][last'.act \in SucceededActs => last'.key \in invalidated']_vars

\* C6: every failed store request (a query or a mutation) raises exactly one
\* toast.
C6_FailureRaisesOneToast ==
    [][last'.act \in FailedActs \cup {"QueryFailed"} => Len(toasts') = 1]_vars

C8_Step ==
    /\ last'.act \in {"handleDeleteProgram", "deleteProgram"}
         => \E r \in issued' :
              /\ issued' = {r}
              /\ r.op = "delete" /\ r.table = "programs"
              /\ r.id = last'.id /\ r.id # AnyId
    /\ last'.act \in {"deleteProgramSucceeded", "deleteProgramFailed"}
         => \A r \in issued' : r.op = "select"
    /\ page \in {"Index", "Programs"}
         => /\ db'["expenses"] = db["expenses"]
            /\ db'["funding"] = db["funding"]
            /\ \A r \in issued' : r.op \in WriteOps => r.table = "programs"
    /\ (page \in {"Index", "Programs"} /\ last'.act = "delete")
         => {x \in db["programs"] : x.id # last'.id} \subseteq db'["programs"]

\* C8: a program delete handler issues exactly one request, a delete on the
\* programs table restricted to the given id; its continuation issues only the
\* refetch; no step of the programs pages writes the expenses or funding
\* tables, and the store's delete removes no program with another id.
C8_DeleteProgramHasNoCascade == [][C8_Step]_vars

\* C8 witness: a program delete has succeeded and an expense still refers to
\* the program that is gone.
C8_Witness ==
    /\ last.act = "deleteProgramSucceeded"
    /\ last.id \notin ProgramIds(db["programs"])
    /\ \E e \in db["expenses"] : e.program_id = last.id

\* the query behind a list page's list
ListKey(p) ==
    CASE p \in {"Index", "IndexFirst", "Programs"} -> "programs"
      [] p = "Funding" -> "funding"
      [] p = "Expenses" -> "expenses"

\* what a list page renders as its list
PageView ==
    CASE page \in {"Index", "IndexFirst"} -> IndexView
      [] page = "Programs" -> ProgramsView
      [] page = "Funding" -> FundingView
      [] page = "Expenses" -> ExpensesView

\* the view the query's state calls for
ViewOfQuery(key) ==
    CASE q[key].status = "pending" -> "loading"
      [] q[key].status = "error" -> "error"
      [] q[key].status = "success" /\ q[key].rows = {} -> "empty"
      [] OTHER -> "populated"

\* C9: every list page renders the loading view while its query is pending,
\* the error view when it has failed, the empty view when it succeeded with no
\* rows and the populated view when it succeeded with rows.
C9_ViewFollowsQuery == PageView = ViewOfQuery(ListKey(page))

\* C10: every select a page issues against programs, expenses or funding is
\* restricted to user_id = the authenticated user, and every row a page holds
\* belongs to that user.
C10_SelectsOnlyOwnRows ==
    /\ \A r \in issued : r.op = "select" => r.user_id = Me
    /\ \A k \in Keys : \A r \in Data(k) : "user_id" \in DOMAIN r => r.user_id = Me

-----------------------------------------------------------------------------
(* The dashboards.  Dashboard.tsx fetches the raw rows of each table and    *)
(* aggregates them at render; the second variant asks the store's           *)
(* aggregation procedures and falls back to the raw rows.  A row's grouping *)
(* column (expenses.category, funding.type) is its field "key".             *)

MaxRows == 3        \* rows of one table the store holds for a dashboard

DashKinds == {"expenses", "funding"}
DashVariants == {"Dashboard", "Dashboard2"}

GroupKeys(kind) == IF kind = "expenses" THEN {"Travel", "Equipment"} ELSE {"Grant", "Other"}
AmountValues == {0, 5}

DashRow(key, amount, user) == [key |-> key, amount |-> amount, user_id |-> user]

RowSeqs(kind) ==
    UNION {[1..n -> {DashRow(k, a, u) : k \in GroupKeys(kind), a \in AmountValues, u \in Users}]
             : n \in 0..MaxRows}

SampleRows(kind) ==
    IF kind = "expenses" THEN <<DashRow("Travel", 5, Me)>> ELSE <<DashRow("Grant", 5, Me)>>

\* a number's decimal digits, one character per element
DigitChar(d) ==
    CASE d = 0 -> "0" [] d = 1 -> "1" [] d = 2 -> "2" [] d = 3 -> "3" [] d = 4 -> "4"
      [] d = 5 -> "5" [] d = 6 -> "6" [] d = 7 -> "7" [] d = 8 -> "8" [] d = 9 -> "9"

DigitValue(c) ==
    CASE c = "0" -> 0 [] c = "1" -> 1 [] c = "2" -> 2 [] c = "3" -> 3 [] c = "4" -> 4
      [] c = "5" -> 5 [] c = "6" -> 6 [] c = "7" -> 7 [] c = "8" -> 8 [] c = "9" -> 9
      [] OTHER -> NaN

RECURSIVE NumberToString(_)
\* Number.prototype.toString of a non-negative integer or NaN
NumberToString(n) ==
    IF n = NaN THEN <<"N", "a", "N">>
    ELSE IF n < 10 THEN <<DigitChar(n)>>
    ELSE Append(NumberToString(n \div 10), DigitChar(n % 10))

RECURSIVE ParseDigits(_, _)
ParseDigits(s, acc) ==
    IF s = <<>> \/ DigitValue(Head(s)) = NaN THEN acc
    ELSE ParseDigits(Tail(s), acc * 10 + DigitValue(Head(s)))

\* parseFloat of a character sequence: the longest prefix of digits, or NaN
ParseFloatChars(s) ==
    IF s = <<>> \/ DigitValue(Head(s)) = NaN THEN NaN ELSE ParseDigits(s, 0)

\* JavaScript + on numbers
Plus(a, b) == IF a = NaN \/ b = NaN THEN NaN ELSE a + b

\* x || 0
OrZero(x) == IF x = NaN \/ x = 0 THEN 0 ELSE x

\* a JavaScript object used as a map: its keys in insertion order, its values
EmptyObject == [order |-> <<>>, val |-> <<>>]

HasKey(o, key) == key \in DOMAIN o.val

PutKey(o, key, v) ==
    [order |-> IF HasKey(o, key) THEN o.order ELSE Append(o.order, key),
     val |-> (key :> v) @@ o.val]

\* a fold step that keeps a key's first amount
CategoryTotalsAddFirst(t, key, amount) ==
    PutKey(t, key, IF HasKey(t, key) /\ OrZero(t.val[key]) # 0 THEN t.val[key] ELSE amount)

\* categoryTotals[c] = (categoryTotals[c] || 0) + amount
CategoryTotalsAdd(t, key, amount) ==
    PutKey(t, key, Plus(IF HasKey(t, key) THEN OrZero(t.val[key]) ELSE 0, amount))

RECURSIVE CategoryTotals(_, _)
CategoryTotals(rows, t) ==
    IF rows = <<>> THEN t
    ELSE CategoryTotals(Tail(rows), CategoryTotalsAdd(t, Head(rows).key, Head(rows).amount))

\* the chart entries of Dashboard.tsx
GetExpensesByCategory(has, data) ==
    IF ~has THEN <<>>
    ELSE LET t == CategoryTotals(data, EmptyObject)
         IN [i \in 1..Len(t.order) |-> [name |-> t.order[i], amount |-> t.val[t.order[i]]]]

GetFundingByType(has, data) == GetExpensesByCategory(has, data)

RECURSIVE ReduceAmount(_, _)
ReduceAmount(rows, sum) ==
    IF rows = <<>> THEN sum ELSE ReduceAmount(Tail(rows), Plus(sum, Head(rows).amount))

\* Dashboard.tsx: rows?.reduce((sum, r) => sum + r.amount, 0) || 0
TotalAmount(has, data) == IF ~has THEN 0 ELSE OrZero(ReduceAmount(data, 0))

\* a fold step that overwrites the total instead of adding to it
SummaryAddOverwrite(s, key, amount) ==
    LET cur == IF HasKey(s, key) THEN s.val[key] ELSE [total |-> 0, count |-> 0]
    IN PutKey(s, key, [total |-> amount, count |-> cur.count + 1])

\* the fallback's fold step: create the entry if missing, then add
SummaryAdd(s, key, amount) ==
    LET cur == IF HasKey(s, key) THEN s.val[key] ELSE [total |-> 0, count |-> 0]
    IN PutKey(s, key, [total |-> Plus(cur.total, amount), count |-> cur.count + 1])

RECURSIVE Summarise(_, _)
Summarise(rows, s) ==
    IF rows = <<>> THEN s
    ELSE Summarise(Tail(rows),
                   SummaryAdd(s, Head(rows).key,
                              ParseFloatChars(NumberToString(Head(rows).amount))))

\* Object.entries(summary).map(...)
SummaryEntries(s) ==
    [i \in 1..Len(s.order) |->
        [key |-> s.order[i], total |-> s.val[s.order[i]].total, count |-> s.val[s.order[i]].count]]

Transform(rows) == SummaryEntries(Summarise(rows, EmptyObject))

RECURSIVE ReduceTotal(_, _)
ReduceTotal(entries, sum) ==
    IF entries = <<>> THEN sum
    ELSE ReduceTotal(Tail(entries),
                     Plus(sum, ParseFloatChars(NumberToString(Head(entries).total))))

\* second dashboard: summary?.reduce((sum, e) => sum + parseFloat(e.total.toString()), 0) || 0
TotalOfSummary(has, data) == IF ~has THEN 0 ELSE OrZero(ReduceTotal(data, 0))

OwnRows(rows, user) == SelectSeq(rows, LAMBDA r : r.user_id = user)

\* select "category, amount" / "type, amount"
KeyAndAmount(rows) == [i \in DOMAIN rows |-> [key |-> rows[i].key, amount |-> rows[i].amount]]

\* the store's aggregation procedure: one {key, total, count} row per key of
\* the given user's rows
AggregationProcedure(rows, user) == Transform(KeyAndAmount(OwnRows(rows, user)))

DashQueryInit(variant) ==
    [pc |-> IF variant = "Dashboard" THEN "select" ELSE "rpc",
     status |-> "pending", has |-> FALSE, data |-> <<>>,
     rpc |-> "none", fallback |-> "none", fetched |-> <<>>]

Outcomes == {"rows", "error", "rejected"}

DashFrame == UNCHANGED <<page, db, nextId, q, muts, idx, prg, fnd, exp, steps, ps, lay, prof, invalidated>>

DashFailed(k, via) ==
    [dash EXCEPT !.qs[k].pc = "done", !.qs[k].status = "error", !.qs[k][via[1]] = via[2]]

\* Dashboard.tsx: a table's select returns and the queryFn finishes
DashboardQueryReturns(k) ==
    /\ dash.variant = "Dashboard"
    /\ dash.qs[k].pc = "select"
    /\ \E ok \in BOOLEAN :
         IF ok
         THEN /\ dash' = [dash EXCEPT !.qs[k].pc = "done", !.qs[k].status = "success",
                                      !.qs[k].has = TRUE, !.qs[k].data = dash.rows[k],
                                      !.qs[k].fetched = dash.rows[k]]
              /\ last' = Event("QuerySucceeded", k, NoId)
              /\ toasts' = <<>>
         ELSE /\ dash' = [dash EXCEPT !.qs[k].pc = "done", !.qs[k].status = "error"]
              /\ last' = Event("QueryFailed", k, NoId)
              /\ toasts' = <<Toast("destructive", "Error fetching " \o k)>>
    /\ issued' = {}
    /\ DashFrame

\* second dashboard: the procedure call settles; a rejection runs the catch
\* callback, which sends the raw-rows select
SummaryRpcReturns(k) ==
    /\ dash.variant = "Dashboard2"
    /\ dash.qs[k].pc = "rpc"
    /\ \E out \in Outcomes :
         CASE out = "rows" ->
                LET data == AggregationProcedure(dash.rows[k], Me)
                IN /\ dash' = [dash EXCEPT !.qs[k].pc = "done", !.qs[k].status = "success",
                                           !.qs[k].has = TRUE, !.qs[k].rpc = "rows",
                                           !.qs[k].data = IF data # <<>> THEN data
                                                          ELSE Transform(data)]
                   /\ last' = Event("QuerySucceeded", k, NoId)
                   /\ issued' = {}
           [] out = "error" ->
                /\ dash' = DashFailed(k, <<"rpc", "error">>)
                /\ last' = Event("QueryFailed", k, NoId)
                /\ issued' = {}
           [] out = "rejected" ->
                /\ dash' = [dash EXCEPT !.qs[k].pc = "fallback", !.qs[k].rpc = "rejected"]
                /\ last' = Event("catch", k, NoId)
                /\ issued' = {Request("select", k, AnyId, Me, AnyId, AnyS, {"key", "amount"}, NoValues)}
    /\ toasts' = <<>>
    /\ DashFrame

\* second dashboard: the raw-rows select settles and the queryFn finishes
SummaryFallbackReturns(k) ==
    /\ dash.variant = "Dashboard2"
    /\ dash.qs[k].pc = "fallback"
    /\ \E out \in Outcomes :
         IF out = "rows"
         THEN LET data == KeyAndAmount(OwnRows(dash.rows[k], Me))
              IN /\ dash' = [dash EXCEPT !.qs[k].pc = "done", !.qs[k].status = "success",
                                         !.qs[k].has = TRUE, !.qs[k].fallback = "rows",
                                         !.qs[k].fetched = data,
                                         !.qs[k].data = Transform(data)]
                 /\ last' = Event("QuerySucceeded", k, NoId)
         ELSE /\ dash' = DashFailed(k, <<"fallback", out>>)
              /\ last' = Event("QueryFailed", k, NoId)
    /\ issued' = {}
    /\ toasts' = <<>>
    /\ DashFrame

\* a dashboard is mounted over a store holding some rows
InitDash ==
    /\ page = "Dashboard"
    /\ db = InitialDb
    /\ nextId = [t \in Tables |-> 3]
    /\ q = [k \in Keys |-> IdleQuery]
    /\ muts = {}
    /\ steps = 0
    /\ prof = Null /\ ps = Null /\ lay = Null
    /\ idx = IndexInit /\ prg = ProgramsInit /\ fnd = FundingInit /\ exp = ExpensesInit
    /\ \E variant \in DashVariants, kind \in DashKinds :
         \E rows \in RowSeqs(kind) :
            dash = [variant |-> variant,
                    rows |-> [k \in DashKinds |-> IF k = kind THEN rows ELSE SampleRows(k)],
                    qs |-> [k \in DashKinds |-> DashQueryInit(variant)]]
    /\ last = Event("mount", "", NoId)
    /\ toasts = <<>>
    /\ issued = {}
    /\ invalidated = {}

NextDash ==
    \/ \E k \in DashKinds : DashboardQueryReturns(k)
    \/ \E k \in DashKinds : SummaryRpcReturns(k)
    \/ \E k \in DashKinds : SummaryFallbackReturns(k)

SpecDash == InitDash /\ [][NextDash]_vars

-----------------------------------------------------------------------------
(* Properties of the dashboards.                                            *)

KeysOf(rows) == {rows[i].key : i \in DOMAIN rows}

WithKey(rows, key) == {i \in DOMAIN rows : rows[i].key = key}

RECURSIVE SumOver(_, _)
\* the arithmetic sum of f over the finite index set S
SumOver(S, f) ==
    IF S = {} THEN 0
    ELSE LET i == CHOOSE j \in S : TRUE IN f[i] + SumOver(S \ {i}, f)

AmountsOf(rows) == [i \in DOMAIN rows |-> rows[i].amount]

\* the chart entries of the first dashboard against the fetched rows
C3_Chart(entries, rows, figure) ==
    /\ {entries[i].name : i \in DOMAIN entries} = KeysOf(rows)
    /\ Len(entries) = Cardinality(KeysOf(rows))
    /\ \A i \in DOMAIN entries :
         entries[i].amount = SumOver(WithKey(rows, entries[i].name), AmountsOf(rows))
    /\ SumOver(DOMAIN entries, [i \in DOMAIN entries |-> entries[i].amount]) = figure

\* the fallback's summary against the fetched rows
C3_Summary(entries, rows, figure) ==
    /\ {entries[i].key : i \in DOMAIN entries} = KeysOf(rows)
    /\ Len(entries) = Cardinality(KeysOf(rows))
    /\ \A i \in DOMAIN entries :
         /\ entries[i].total = SumOver(WithKey(rows, entries[i].key), AmountsOf(rows))
         /\ entries[i].count = Cardinality(WithKey(rows, entries[i].key))
    /\ SumOver(DOMAIN entries, [i \in DOMAIN entries |-> entries[i].total]) = figure

\* C3: for every fetched list of expenses or funding rows, the client-side
\* aggregation (the chart entries of Dashboard.tsx and the fallback summary
\* of the second dashboard) has exactly one entry per key that occurs in the
\* list and none for other keys, each entry's total is the sum of the amounts
\* of the rows with that key, the fallback's count is the number of such
\* rows, and the entries' totals add up to the displayed total figure.
C3_TotalsAreGroupedSums ==
    \A k \in DashKinds :
      LET qk == dash.qs[k]
      IN /\ (dash.variant = "Dashboard" /\ qk.status = "success")
              => C3_Chart(IF k = "expenses" THEN GetExpensesByCategory(qk.has, qk.data)
                                            ELSE GetFundingByType(qk.has, qk.data),
                          qk.fetched, TotalAmount(qk.has, qk.data))
         /\ (dash.variant = "Dashboard2" /\ qk.status = "success" /\ qk.fallback = "rows")
              => C3_Summary(qk.data, qk.fetched, TotalOfSummary(qk.has, qk.data))

\* C3 witness: the fallback has aggregated three rows, two of them of one key,
\* into two entries.
C3_Witness ==
    /\ dash.variant = "Dashboard2"
    /\ dash.qs["expenses"].status = "success"
    /\ dash.qs["expenses"].fallback = "rows"
    /\ Len(dash.qs["expenses"].fetched) = 3
    /\ Len(dash.qs["expenses"].data) = 2
    /\ \E i \in DOMAIN dash.qs["expenses"].data :
         /\ dash.qs["expenses"].data[i].count = 2
         /\ dash.qs["expenses"].data[i].total = 10

\* C5: when the aggregation procedure call has failed (it rejected or it
\* returned an error result) and the raw-rows select did not fail, the query
\* ends in success holding the client-side summary of the current user's rows.
C5_RpcFailureFallsBack ==
    \A k \in DashKinds :
      LET qk == dash.qs[k]
      IN (/\ dash.variant = "Dashboard2"
          /\ qk.pc = "done"
          /\ qk.rpc \in {"error", "rejected"}
          /\ qk.fallback \notin {"error", "rejected"})
           => (/\ qk.status = "success"
               /\ qk.fallback = "rows"
               /\ qk.data = Transform(KeyAndAmount(OwnRows(dash.rows[k], Me))))


-----------------------------------------------------------------------------
(* The Profile page: the profile query, the form, the updateProfile         *)
(* mutation and uploadAvatar, against the profiles table and the avatars    *)
(* bucket.                                                                  *)

MaxUploads == 2     \* clock readings uploadAvatar can draw its file path from

NoFile == <<>>      \* avatarFile === null
NoUrl == <<>>       \* avatar_url is null

\* file names, split at the dots
FileNames == {<<"a", "png">>, <<"b">>}
DisplayNames == {"", "a"}
Themes == {"light", "dark"}

\* file.name.split('.').pop()
FileExt(name) == name[Len(name)]

\* `${user.id}-${Date.now()}.${fileExt}`
FilePath(user, now, ext) == <<user, "-", DigitChar(now), ".", ext>>

\* storage.from("avatars").getPublicUrl(filePath)
GetPublicUrl(path) == <<"avatars", "/">> \o path

ProfileRow(name, theme, url) ==
    [display_name |-> name, theme_preference |-> theme, avatar_url |-> url]

\* a request against the caller's own profiles row: .eq("id", user.id)
ProfileRequest(op, values) ==
    Request(op, "profiles", AnyId, Me, AnyId, AnyS, DOMAIN values, values)

UploadRequest(path, file) ==
    Request("upload", "avatars", AnyId, AnyS, AnyId, AnyS, {"*"},
            [path |-> path, file |-> file, upsert |-> TRUE])

IdleUpload == [pc |-> "idle", path |-> <<>>, url |-> <<>>]
IdleMutation == [pc |-> "idle", data |-> NoValues]

\* (the last submission: what was submitted, which of its requests the store
\* has yet to answer, whether one of them failed)
NoSubmission ==
    [made |-> FALSE, data |-> NoValues, path |-> <<>>, pending |-> {}, failed |-> FALSE]

ProfileInit(row, runs) ==
    [row |-> row,
     sub |-> NoSubmission,
     bucket |-> {},
     formData |-> [display_name |-> "", theme_preference |-> "light"],
     avatarFile |-> NoFile,
     isUploading |-> FALSE,
     upload |-> IdleUpload,
     mut |-> IdleMutation,
     query |-> [status |-> "pending", has |-> FALSE, data |-> row, fetch |-> "sent"],
     now |-> 1,
     edited |-> FALSE,          \* (a form field was changed by the user)
     onSuccessRuns |-> runs]

ProfFrame == UNCHANGED <<page, db, nextId, q, muts, idx, prg, fnd, exp, dash, ps, lay>>

ProfUserStep == steps < MaxSteps /\ steps' = steps + 1 /\ ProfFrame
ProfAutoStep == steps' = steps /\ ProfFrame

\* invalidateQueries({ queryKey: ["profile", user?.id] }): the query refetches,
\* loading again when it holds no data
ProfileRefetch(query) ==
    [query EXCEPT !.fetch = "sent", !.status = IF query.has THEN @ ELSE "pending"]

\* the form is rendered once the profile query is no longer loading
ProfileFormShown == prof.query.status # "pending"

\* x || d for a string column
OrDefault(x, d) == IF x = "" THEN d ELSE x

\* the profile select returns and the queryFn (and onSuccess, where the query
\* library still calls it) finishes
ProfileQueryReturns ==
    /\ ProfAutoStep
    /\ prof.query.fetch = "sent"
    /\ \E ok \in BOOLEAN :
         IF ok
         THEN /\ prof' = [prof EXCEPT
                    !.query = [status |-> "success", has |-> TRUE, data |-> prof.row,
                               fetch |-> "idle"],
                    !.formData = IF prof.onSuccessRuns
                                 THEN [display_name |-> OrDefault(prof.row.display_name, ""),
                                       theme_preference |->
                                           OrDefault(prof.row.theme_preference, "light")]
                                 ELSE prof.formData]
              /\ last' = Event("QuerySucceeded", "profile", NoId)
              /\ toasts' = <<>>
         ELSE /\ prof' = [prof EXCEPT
                    !.query.status = "error",
                    !.query.fetch = "idle"]
              /\ last' = Event("QueryFailed", "profile", NoId)
              /\ toasts' = <<Toast("error", "Error fetching profile")>>
    /\ issued' = {}
    /\ invalidated' = {}

ProfileLocal(act, p) ==
    /\ ProfUserStep
    /\ ProfileFormShown
    /\ prof' = p
    /\ last' = Event(act, "", NoId)
    /\ toasts' = <<>>
    /\ issued' = {}
    /\ invalidated' = {}

ProfileHandleInputChange ==
    \E v \in DisplayNames :
       ProfileLocal("handleInputChange",
                    [prof EXCEPT !.formData.display_name = v, !.edited = TRUE])

ProfileHandleSelectChange ==
    \E v \in Themes :
       ProfileLocal("handleSelectChange",
                    [prof EXCEPT !.formData.theme_preference = v, !.edited = TRUE])

HandleAvatarSelect ==
    \E f \in FileNames :
       ProfileLocal("handleAvatarSelect", [prof EXCEPT !.avatarFile = f])

\* an update that sends the whole profile as last fetched along with the form
UpdateProfileValuesWholeRow(formData) ==
    formData @@ [avatar_url |-> prof.query.data.avatar_url]

\* supabase.from("profiles").update(data): the form's two columns
UpdateProfileValues(formData) == formData

\* Save Changes: updateProfile.mutate(formData), then uploadAvatar(avatarFile)
\* up to its first await when a file is selected
ProfileHandleSubmit ==
    /\ ProfUserStep
    /\ ProfileFormShown
    /\ ~(prof.mut.pc # "idle" \/ prof.isUploading)
    /\ \/ prof.avatarFile = NoFile
       \/ prof.now <= MaxUploads
    /\ LET path == FilePath(Me, prof.now, FileExt(prof.avatarFile))
           withFile == prof.avatarFile # NoFile
       IN /\ prof' = [prof EXCEPT
                !.mut = [pc |-> "sent", data |-> UpdateProfileValues(prof.formData)],
                !.sub = [made |-> TRUE, data |-> prof.formData,
                         path |-> IF withFile THEN path ELSE <<>>,
                         pending |-> IF withFile THEN {"update", "upload", "avatar"}
                                     ELSE {"update"},
                         failed |-> FALSE],
                !.isUploading = withFile,
                !.upload = IF withFile THEN [pc |-> "uploading", path |-> path, url |-> <<>>]
                           ELSE IdleUpload,
                !.now = IF withFile THEN prof.now + 1 ELSE prof.now]
          /\ issued' = {ProfileRequest("update", UpdateProfileValues(prof.formData))}
                       \cup (IF withFile THEN {UploadRequest(path, prof.avatarFile)} ELSE {})
    /\ last' = Event("handleSubmit", "profile", NoId)
    /\ toasts' = <<>>
    /\ invalidated' = {}

\* the store answers updateProfile's update
UpdateProfileServer ==
    /\ ProfAutoStep
    /\ prof.mut.pc = "sent"
    /\ \E ok \in BOOLEAN :
         prof' = [prof EXCEPT
             !.mut.pc = IF ok THEN "ok" ELSE "failed",
             !.sub.pending = @ \ {"update"}, !.sub.failed = @ \/ ~ok,
             !.row = IF ok THEN prof.mut.data @@ prof.row ELSE prof.row]
    /\ last' = Event("update", "profiles", NoId)
    /\ toasts' = <<>>
    /\ issued' = {}
    /\ invalidated' = {}

\* updateProfile's onSuccess / onError
UpdateProfileSettled ==
    /\ ProfAutoStep
    /\ prof.mut.pc \in {"ok", "failed"}
    /\ IF prof.mut.pc = "ok"
       THEN /\ prof' = [prof EXCEPT !.mut = IdleMutation, !.query = ProfileRefetch(@)]
            /\ invalidated' = {"profile"}
            /\ issued' = {ProfileRequest("select", NoValues)}
            /\ toasts' = <<Toast("success", "Profile updated successfully")>>
            /\ last' = Event("updateProfileSucceeded", "profiles", NoId)
       ELSE /\ prof' = [prof EXCEPT !.mut = IdleMutation]
            /\ invalidated' = {}
            /\ issued' = {}
            /\ toasts' = <<Toast("error", "Error updating profile")>>
            /\ last' = Event("updateProfileFailed", "profiles", NoId)

\* the bucket answers the upload
StorageUpload ==
    /\ ProfAutoStep
    /\ prof.upload.pc = "uploading"
    /\ \E ok \in BOOLEAN :
         prof' = [prof EXCEPT
             !.upload.pc = IF ok THEN "uploaded" ELSE "uploadFailed",
             !.sub.pending = IF ok THEN @ \ {"upload"} ELSE @ \ {"upload", "avatar"},
             !.sub.failed = @ \/ ~ok,
             !.bucket = IF ok THEN prof.bucket \cup {prof.upload.path} ELSE prof.bucket]
    /\ last' = Event("upload", "avatars", NoId)
    /\ toasts' = <<>>
    /\ issued' = {}
    /\ invalidated' = {}

\* a catch without the finally block: the busy state and the file stay
UploadAvatarCaughtNoFinally(stage) ==
    /\ prof' = [prof EXCEPT !.upload = IdleUpload]
    /\ toasts' = <<Toast("error", "Error uploading avatar")>>
    /\ issued' = {}
    /\ invalidated' = {}
    /\ last' = Event("uploadAvatarFailed", stage, NoId)

\* catch and finally of uploadAvatar
UploadAvatarCaught(stage) ==
    /\ prof' = [prof EXCEPT !.upload = IdleUpload, !.isUploading = FALSE,
                            !.avatarFile = NoFile]
    /\ toasts' = <<Toast("error", "Error uploading avatar")>>
    /\ issued' = {}
    /\ invalidated' = {}
    /\ last' = Event("uploadAvatarFailed", stage, NoId)

\* uploadAvatar resumes after the upload: throw, or send the avatar_url update
UploadAvatarAfterUpload ==
    /\ ProfAutoStep
    /\ prof.upload.pc \in {"uploaded", "uploadFailed"}
    /\ IF prof.upload.pc = "uploadFailed"
       THEN UploadAvatarCaught("upload")
       ELSE LET url == GetPublicUrl(prof.upload.path)
            IN /\ prof' = [prof EXCEPT !.upload.pc = "updating", !.upload.url = url]
               /\ issued' = {ProfileRequest("update", [avatar_url |-> url])}
               /\ toasts' = <<>>
               /\ invalidated' = {}
               /\ last' = Event("uploadAvatarContinues", "update", NoId)

\* the store answers uploadAvatar's update of avatar_url
AvatarUpdateServer ==
    /\ ProfAutoStep
    /\ prof.upload.pc = "updating"
    /\ \E ok \in BOOLEAN :
         /\ prof' = [prof EXCEPT
                !.upload.pc = IF ok THEN "updated" ELSE "updateFailed",
                !.sub.pending = @ \ {"avatar"}, !.sub.failed = @ \/ ~ok,
                !.row = IF ok THEN [prof.row EXCEPT !.avatar_url = prof.upload.url]
                        ELSE prof.row]
         /\ last' = Event(IF ok THEN "avatarUpdateApplied" ELSE "avatarUpdateRefused",
                          "profiles", NoId)
    /\ toasts' = <<>>
    /\ issued' = {}
    /\ invalidated' = {}

\* an uploadAvatar that treats a failed update like a succeeded one
UploadAvatarUpdateFailedIgnored(pc) == FALSE

\* if (updateError) throw updateError
UploadAvatarUpdateFailed(pc) == pc = "updateFailed"

\* uploadAvatar resumes after the update: throw, or invalidate and report
UploadAvatarAfterUpdate ==
    /\ ProfAutoStep
    /\ prof.upload.pc \in {"updated", "updateFailed"}
    /\ IF UploadAvatarUpdateFailed(prof.upload.pc)
       THEN UploadAvatarCaught("update")
       ELSE /\ prof' = [prof EXCEPT !.upload = IdleUpload, !.isUploading = FALSE,
                                    !.avatarFile = NoFile, !.query = ProfileRefetch(@)]
            /\ invalidated' = {"profile"}
            /\ issued' = {ProfileRequest("select", NoValues)}
            /\ toasts' = <<Toast("success", "Avatar updated successfully")>>
            /\ last' = Event("uploadAvatarSucceeded", "update", NoId)

InitProfile ==
    /\ page = "Profile"
    /\ db = InitialDb
    /\ nextId = [t \in Tables |-> 3]
    /\ q = [k \in Keys |-> IdleQuery]
    /\ muts = {}
    /\ steps = 0
    /\ dash = Null /\ ps = Null /\ lay = Null
    /\ idx = IndexInit /\ prg = ProgramsInit /\ fnd = FundingInit /\ exp = ExpensesInit
    /\ \E name \in DisplayNames, theme \in Themes, runs \in BOOLEAN :
         prof = ProfileInit(ProfileRow(name, theme, NoUrl), runs)
    /\ last = Event("mount", "", NoId)
    /\ toasts = <<>>
    /\ issued = {ProfileRequest("select", NoValues)}
    /\ invalidated = {}

NextProfile ==
    \/ ProfileQueryReturns
    \/ ProfileHandleInputChange
    \/ ProfileHandleSelectChange
    \/ HandleAvatarSelect
    \/ ProfileHandleSubmit
    \/ UpdateProfileServer
    \/ UpdateProfileSettled
    \/ StorageUpload
    \/ UploadAvatarAfterUpload
    \/ AvatarUpdateServer
    \/ UploadAvatarAfterUpdate

SpecProfile == InitProfile /\ [][NextProfile]_vars

-----------------------------------------------------------------------------
(* Properties of the Profile page.                                          *)

C7_Step ==
    /\ last'.act = "avatarUpdateRefused"
         => (prof'.row = prof.row /\ prof'.bucket = prof.bucket)
    /\ (prof.upload.pc = "updateFailed" /\ prof'.upload.pc # "updateFailed")
         => /\ last'.act = "uploadAvatarFailed"
            /\ prof.upload.path \in prof'.bucket
            /\ prof'.row = prof.row
            /\ prof'.row.avatar_url # GetPublicUrl(prof.upload.path)
            /\ issued' = {}
            /\ invalidated' = {}
            /\ prof'.query = prof.query
            /\ Len(toasts') = 1 /\ toasts'[1].variant = "error"

\* C7: when uploadAvatar's upload has succeeded and its update of avatar_url
\* is refused, the store leaves the profile row as it was, and uploadAvatar's
\* continuation leaves the uploaded file in the bucket, leaves the row's
\* avatar_url unchanged (not the new file's URL), issues no request,
\* invalidates no query and raises one error toast.
C7_FailedAvatarUpdateLeavesFile == [][C7_Step]_vars

\* C7 witness: uploadAvatar has ended in its catch after the update failed;
\* the file is in the bucket and the row has no avatar_url.
C7_Witness ==
    /\ last.act = "uploadAvatarFailed" /\ last.key = "update"
    /\ prof.bucket # {}
    /\ prof.row.avatar_url = NoUrl
    /\ ~prof.isUploading


-----------------------------------------------------------------------------
(* Properties of what the forms write.                                      *)

\* the program status enum
ProgramStatusEnum == {"active", "completed", "on-hold", "cancelled"}

\* C11: every status value a client form writes to the programs table (in an
\* insert or an update) is one of active, completed, on-hold, cancelled.
C11_WrittenStatusInEnum ==
    \A r \in issued :
       (/\ r.table = "programs"
        /\ r.op \in {"insert", "update"}
        /\ "status" \in DOMAIN r.values)
         => r.values.status \in ProgramStatusEnum


\* C12: in every expenses or funding insert and update the client issues,
\* program_id is absent, null, or the id of a program of the fetched programs
\* list (or the reference the edited row already had); the empty string is
\* never sent.
C12_ProgramReferenceWellFormed ==
    \A r \in issued :
       (/\ r.table \in {"expenses", "funding"}
        /\ r.op \in {"insert", "update"}
        /\ "program_id" \in DOMAIN r.values)
         => \/ r.values.program_id = NoId
            \/ r.values.program_id \in {p.id : p \in Data("programs")}
            \/ \E x \in Data(r.table) : x.id = r.id /\ x.program_id = r.values.program_id


-----------------------------------------------------------------------------
(* The dashboards' balances and the second dashboard's program summaries.   *)
(* The store's expenses and funding rows are dash.rows; here a row also     *)
(* carries the program it references.                                       *)

MaxSumRows == 2     \* rows of the varied table when a dashboard is mounted
MaxWrites == 1      \* writes other sessions commit while the dashboard loads

SumPrograms == {1, 2}

SumRow(kind, amount, program) ==
    [key |-> IF kind = "expenses" THEN "Travel" ELSE "Grant", amount |-> amount,
     user_id |-> Me, program_id |-> program]

SumRows(kind) == {SumRow(kind, 5, p) : p \in SumPrograms \cup {NoId}}

SumRowSeqs(kind) == UNION {[1..n -> SumRows(kind)] : n \in 0..MaxSumRows}

\* the programs table: two programs of the user, one of somebody else
SumProgramRows ==
    <<ProgramRow(1, Me, "p1", 10, "active"), ProgramRow(2, Me, "p2", 0, "completed"),
      ProgramRow(3, "u2", "p3", 5, "active")>>

\* Dashboard.tsx: a sum with the operands exchanged
NetBalanceReversed(totalFunding, totalExpenses) == totalExpenses - totalFunding

\* Dashboard.tsx: const netBalance = totalFunding - totalExpenses
NetBalance(totalFunding, totalExpenses) == totalFunding - totalExpenses

\* Dashboard.tsx: {netBalance >= 0 ? 'Surplus' : 'Deficit'}
BalanceLabel(netBalance) == IF netBalance >= 0 THEN "Surplus" ELSE "Deficit"

\* a store that answers every read from the rows it had at mount
ServedRowsAtMount(table) == ps.history[1][table]

\* the rows a select is served from: the table as it is when the store
\* answers, each request on its own
ServedRows(table) == dash.rows[table]

\* .select("amount").eq("program_id", program.id)
AmountsOfProgram(rows, program) ==
    LET of == SelectSeq(rows, LAMBDA r : r.program_id = program)
    IN [i \in DOMAIN of |-> of[i].amount]

RECURSIVE ReduceParsed(_, _)
\* amounts.reduce((sum, item) => sum + parseFloat(item.amount), 0)
ReduceParsed(amounts, sum) ==
    IF amounts = <<>> THEN sum
    ELSE ReduceParsed(Tail(amounts), Plus(sum, ParseFloatChars(NumberToString(Head(amounts)))))

\* the object one program's async function returns
ProgramSummary(program, expenses, funding) ==
    LET totalExpenses == ReduceParsed(expenses, 0)
        totalFunding == ReduceParsed(funding, 0)
    IN [id |-> program.id, name |-> program.name,
        budget |-> ParseFloatChars(NumberToString(program.budget)),
        expenses |-> totalExpenses, funding |-> totalFunding,
        status |-> program.status, balance |-> totalFunding - totalExpenses]

SumQueryInit(pc) == [pc |-> pc, status |-> "pending", has |-> FALSE, data |-> <<>>]

\* one program's async function: which request it awaits, what it has read
\* (expensesAt, fundingAt: the table as it was when the request was served)
SumWorkInit ==
    [pc |-> "expenses", expenses |-> <<>>, funding |-> <<>>,
     expensesAt |-> <<>>, fundingAt |-> <<>>]

\* (history: the states the store's expenses and funding tables went through)
SummariesInit(variant, rows) ==
    [programs |-> SumProgramRows, history |-> <<rows>>,
     programsQ |-> SumQueryInit(IF variant = "Dashboard2" THEN "select" ELSE "none"),
     sum |-> SumQueryInit(IF variant = "Dashboard2" THEN "disabled" ELSE "none")
               @@ [list |-> <<>>, work |-> <<>>],
     writes |-> 0]

SumFrame == UNCHANGED <<page, db, nextId, q, muts, idx, prg, fnd, exp, steps, lay, prof, invalidated>>

ProgramsSelect(cols) == Request("select", "programs", AnyId, Me, AnyId, AnyS, cols, NoValues)

AmountSelect(table, program) ==
    Request("select", table, AnyId, AnyS, program, AnyS, {"amount"}, NoValues)

\* every program's function sending both of its selects at once
FirstSelectsBoth(list) ==
    {AmountSelect(t, list[i].id) : t \in {"expenses", "funding"}, i \in DOMAIN list}

\* what the programs' functions send when Promise.all starts them: each its
\* expenses select, and nothing else before that one has returned
FirstSelects(list) == {AmountSelect("expenses", list[i].id) : i \in DOMAIN list}

\* second dashboard: the programs query settles; with data in hand the next
\* render enables the program-summaries query (enabled: !!user && !!programs),
\* which sends its own programs select
SumProgramsQueryReturns ==
    /\ ps.programsQ.pc = "select"
    /\ \E ok \in BOOLEAN :
         IF ok
         THEN /\ ps' = [ps EXCEPT !.programsQ.pc = "done", !.programsQ.status = "success",
                                  !.programsQ.has = TRUE,
                                  !.programsQ.data = OwnRows(ps.programs, Me),
                                  !.sum.pc = "programs"]
              /\ last' = Event("QuerySucceeded", "programs", NoId)
              /\ issued' = {ProgramsSelect({"*"})}
         ELSE /\ ps' = [ps EXCEPT !.programsQ.pc = "done", !.programsQ.status = "error"]
              /\ last' = Event("QueryFailed", "programs", NoId)
              /\ issued' = {}
    /\ toasts' = <<>>
    /\ UNCHANGED dash
    /\ SumFrame

SumFailed == [ps EXCEPT !.sum.pc = "done", !.sum.status = "error"]

SumSucceeded(s, data) ==
    [s EXCEPT !.sum.pc = "done", !.sum.status = "success", !.sum.has = TRUE, !.sum.data = data]

\* program-summaries queryFn: its programs select returns; Promise.all starts
\* one async function per program, each of which sends its expenses select
SummariesProgramsReturn ==
    /\ ps.sum.pc = "programs"
    /\ \E ok \in BOOLEAN :
         IF ok
         THEN LET list == OwnRows(ps.programs, Me)
                  started == [ps EXCEPT !.sum.pc = "rows", !.sum.list = list,
                                        !.sum.work = [i \in DOMAIN list |-> SumWorkInit]]
              IN /\ ps' = IF list = <<>> THEN SumSucceeded(started, <<>>) ELSE started
                 /\ last' = Event("programsRead", "program-summaries", NoId)
                 /\ issued' = FirstSelects(list)
         ELSE /\ ps' = SumFailed
              /\ last' = Event("QueryFailed", "program-summaries", NoId)
              /\ issued' = {}
    /\ toasts' = <<>>
    /\ UNCHANGED dash
    /\ SumFrame

\* one program's expenses select returns; its function then sends the
\* funding select
SummaryExpensesReturn(i) ==
    /\ ps.sum.pc = "rows"
    /\ i \in DOMAIN ps.sum.work
    /\ ps.sum.work[i].pc = "expenses"
    /\ \E ok \in BOOLEAN :
         IF ok
         THEN /\ ps' = [ps EXCEPT !.sum.work[i].pc = "funding",
                                  !.sum.work[i].expenses =
                                      AmountsOfProgram(ServedRows("expenses"), ps.sum.list[i].id),
                                  !.sum.work[i].expensesAt = ServedRows("expenses")]
              /\ last' = Event("expensesRead", "program-summaries", ps.sum.list[i].id)
              /\ issued' = {AmountSelect("funding", ps.sum.list[i].id)}
         ELSE /\ ps' = SumFailed
              /\ last' = Event("QueryFailed", "program-summaries", ps.sum.list[i].id)
              /\ issued' = {}
    /\ toasts' = <<>>
    /\ UNCHANGED dash
    /\ SumFrame

\* one program's funding select returns and its function returns the summary;
\* when the last one has, Promise.all resolves and the queryFn returns
SummaryFundingReturn(i) ==
    /\ ps.sum.pc = "rows"
    /\ i \in DOMAIN ps.sum.work
    /\ ps.sum.work[i].pc = "funding"
    /\ \E ok \in BOOLEAN :
         IF ok
         THEN LET read == [ps EXCEPT !.sum.work[i].pc = "done",
                                     !.sum.work[i].funding =
                                         AmountsOfProgram(ServedRows("funding"), ps.sum.list[i].id),
                                     !.sum.work[i].fundingAt = ServedRows("funding")]
                  w == read.sum.work
              IN /\ ps' = IF \A j \in DOMAIN w : w[j].pc = "done"
                          THEN SumSucceeded(read,
                                  [j \in DOMAIN w |->
                                      ProgramSummary(ps.sum.list[j], w[j].expenses, w[j].funding)])
                          ELSE read
                 /\ last' = Event("fundingRead", "program-summaries", ps.sum.list[i].id)
         ELSE /\ ps' = SumFailed
              /\ last' = Event("QueryFailed", "program-summaries", ps.sum.list[i].id)
    /\ issued' = {}
    /\ toasts' = <<>>
    /\ UNCHANGED dash
    /\ SumFrame

RemoveAt(seq, i) == [j \in 1..(Len(seq) - 1) |-> IF j < i THEN seq[j] ELSE seq[j + 1]]

\* the dashboard has reads outstanding (a write before the first read or
\* after the last is no different from another store at mount)
SumLoading ==
    IF dash.variant = "Dashboard" THEN \E k \in DashKinds : dash.qs[k].pc = "select"
    ELSE ps.sum.pc \in {"programs", "rows"}

\* a write to expenses or funding commits in the store while the dashboard is
\* loading (another page's mutation, another session): a row is inserted,
\* deleted, or moved to another program
StoreCommit ==
    /\ ps.writes < MaxWrites
    /\ SumLoading
    /\ \E k \in DashKinds :
         \/ \E r \in SumRows(k) :
              /\ Len(dash.rows[k]) <= MaxSumRows
              /\ dash' = [dash EXCEPT !.rows[k] = Append(@, r)]
         \/ \E i \in DOMAIN dash.rows[k] :
              dash' = [dash EXCEPT !.rows[k] = RemoveAt(@, i)]
         \/ \E i \in DOMAIN dash.rows[k], p \in SumPrograms \cup {NoId} :
              /\ p # dash.rows[k][i].program_id
              /\ dash' = [dash EXCEPT !.rows[k][i].program_id = p]
    /\ ps' = [ps EXCEPT !.writes = @ + 1, !.history = Append(@, dash'.rows)]
    /\ last' = Event("StoreCommit", "", NoId)
    /\ issued' = {}
    /\ toasts' = <<>>
    /\ SumFrame

\* a dashboard is mounted over a store holding some rows
InitSummaries ==
    /\ page = "Dashboard"
    /\ db = InitialDb
    /\ nextId = [t \in Tables |-> 3]
    /\ q = [k \in Keys |-> IdleQuery]
    /\ muts = {}
    /\ steps = 0
    /\ prof = Null /\ lay = Null
    /\ idx = IndexInit /\ prg = ProgramsInit /\ fnd = FundingInit /\ exp = ExpensesInit
    /\ \E variant \in DashVariants, kind \in DashKinds :
         \E rows \in SumRowSeqs(kind) :
            /\ dash = [variant |-> variant,
                       rows |-> [k \in DashKinds |->
                                   IF k = kind THEN rows ELSE <<SumRow(k, 5, 1)>>],
                       qs |-> [k \in DashKinds |-> DashQueryInit(variant)]]
            /\ ps = SummariesInit(variant, dash.rows)
    /\ last = Event("mount", "", NoId)
    /\ toasts = <<>>
    /\ issued = {}
    /\ invalidated = {}

NextSummaries ==
    \/ \E k \in DashKinds : DashboardQueryReturns(k)
    \/ SumProgramsQueryReturns
    \/ SummariesProgramsReturn
    \/ \E i \in 1..Len(SumProgramRows) : SummaryExpensesReturn(i)
    \/ \E i \in 1..Len(SumProgramRows) : SummaryFundingReturn(i)
    \/ StoreCommit

SpecSummaries == InitSummaries /\ [][NextSummaries]_vars


-----------------------------------------------------------------------------
(* Properties of the balances.                                              *)

\* the rows of a table that reference a program
Referencing(rows, program) == {i \in DOMAIN rows : rows[i].program_id = program}

\* C13: the first dashboard's net balance is the sum of the fetched funding
\* amounts minus the sum of the fetched expense amounts, and its caption is
\* Surplus exactly when the net balance is >= 0 and Deficit otherwise; each
\* program summary's balance is the sum of the amounts of the funding rows
\* referencing the program minus the sum of the amounts of the expense rows
\* referencing it, over the rows the program's two reads were served from.
C13_BalancesAreFundingMinusExpenses ==
    /\ (/\ dash.variant = "Dashboard"
        /\ \A k \in DashKinds : dash.qs[k].status = "success")
         => LET e == dash.qs["expenses"]
                f == dash.qs["funding"]
                n == NetBalance(TotalAmount(f.has, f.data), TotalAmount(e.has, e.data))
            IN /\ n = SumOver(DOMAIN f.fetched, AmountsOf(f.fetched))
                        - SumOver(DOMAIN e.fetched, AmountsOf(e.fetched))
               /\ BalanceLabel(n) \in {"Surplus", "Deficit"}
               /\ BalanceLabel(n) = "Surplus" <=> n >= 0
    /\ (ps.sum.status = "success")
         => /\ Len(ps.sum.data) = Len(ps.sum.list)
            /\ \A j \in DOMAIN ps.sum.data :
                 LET w == ps.sum.work[j]
                     id == ps.sum.list[j].id
                 IN /\ ps.sum.data[j].id = id
                    /\ ps.sum.data[j].balance =
                         SumOver(Referencing(w.fundingAt, id), AmountsOf(w.fundingAt))
                           - SumOver(Referencing(w.expensesAt, id), AmountsOf(w.expensesAt))

\* C13 witness: the first dashboard shows a deficit computed from two expense
\* rows and one funding row.
C13_Witness ==
    /\ dash.variant = "Dashboard"
    /\ \A k \in DashKinds : dash.qs[k].status = "success"
    /\ Len(dash.qs["expenses"].fetched) = 2
    /\ Len(dash.qs["funding"].fetched) = 1
    /\ NetBalance(TotalAmount(TRUE, dash.qs["funding"].data),
                  TotalAmount(TRUE, dash.qs["expenses"].data)) = -5
    /\ BalanceLabel(-5) = "Deficit"

\* a program summary with a negative balance from two expense rows
C13_SummaryCase ==
    /\ ps.sum.status = "success"
    /\ \E j \in DOMAIN ps.sum.data :
         ps.sum.data[j].balance = -5 /\ Len(ps.sum.work[j].expenses) = 2


-----------------------------------------------------------------------------
(* Properties of the Expenses filters.                                      *)

C14_Step ==
    last'.act \in {"ApplyFilters", "resetFilters"}
      => issued' = {QueryRequest("Expenses", "expenses", exp')}

\* C14: the refetch that Apply Filters or Reset Filters triggers on the
\* Expenses page is issued with the filter values in effect after the action
\* (for Reset: no program and no category restriction).
C14_RefetchUsesFiltersInEffect == [][C14_Step]_vars

C14_ApplyStep ==
    last'.act = "ApplyFilters"
      => issued' = {QueryRequest("Expenses", "expenses", exp')}

\* the same for Apply Filters alone
C14_ApplyUsesFiltersInEffect == [][C14_ApplyStep]_vars


-----------------------------------------------------------------------------
(* Properties of failed mutations.                                          *)

C15_Step ==
    last'.act \in FailedActs
      => /\ issued' = {} /\ muts' \subseteq muts
         /\ invalidated' = {} /\ q' = q
         /\ idx' = idx /\ prg' = prg /\ fnd' = fnd /\ exp' = exp
         /\ Len(toasts') = 1 /\ toasts'[1].variant \in {"destructive", "error"}

-----------------------------------------------------------------------------
(* Properties of the order in which requests are issued.                    *)

\* a step that is the continuation of a request (not a step of the user)
\* and sends a request
C16_IssuedByContinuation == issued' # {} /\ steps' = steps

\* the refetch that follows a succeeded mutation
C16_IsRefetch ==
    /\ last'.act \in SucceededActs \cup {"updateProfileSucceeded", "uploadAvatarSucceeded"}
    /\ \A r \in issued' : r.op = "select"

\* the profile update that follows the avatar upload
C16_IsAvatarUpdate ==
    /\ last'.act = "uploadAvatarContinues"
    /\ \E r \in issued' : issued' = {r} /\ r.op = "update" /\ r.table = "profiles"

C16_IndependentStep == C16_IssuedByContinuation => C16_IsRefetch \/ C16_IsAvatarUpdate

\* C16 as stated: no request is issued in the continuation of another
\* request (every request is sent by a step of the user, at mount, or as the
\* refetch that a succeeded mutation's invalidation starts), except for the
\* profile update that follows the avatar upload.
C16_RequestsIssuedIndependently == [][C16_IndependentStep]_vars

C16_Step ==
    C16_IssuedByContinuation
      => \/ C16_IsRefetch
         \/ C16_IsAvatarUpdate
         \/ last'.act = "catch"
              /\ \E r \in issued' : issued' = {r} /\ r.op = "select" /\ r.table = last'.key
         \/ /\ last'.act = "QuerySucceeded" /\ last'.key = "programs"
            /\ ps # Null /\ ps.sum.pc = "disabled" /\ ps'.sum.pc = "programs"
            /\ \E r \in issued' : issued' = {r} /\ r.op = "select" /\ r.table = "programs"
         \/ /\ last'.act = "programsRead"
            /\ \A r \in issued' : r.op = "select" /\ r.table = "expenses"
            /\ {r.program_id : r \in issued'} = {ps'.sum.list[i].id : i \in DOMAIN ps'.sum.list}
         \/ /\ last'.act = "expensesRead"
            /\ \E r \in issued' : /\ issued' = {r}
                                  /\ r.op = "select" /\ r.table = "funding"
                                  /\ r.program_id = last'.id

\* C16 amended: a request is issued in the continuation of another request
\* only as the refetch after a succeeded mutation, as the profile update
\* after the avatar upload, as the raw-rows select after a rejected procedure
\* call, or inside the second dashboard's
\* program-summaries query: that query starts once the programs query has
\* data, its programs select is followed by one expenses select per program,
\* and each program's expenses select is followed by that program's funding
\* select.
C16_OnlyListedRequestsWait == [][C16_Step]_vars

\* C16 witness: one program's expenses select has returned and its funding
\* select has been sent, while the other program's expenses select is still
\* outstanding.
C16_Witness ==
    /\ last.act = "expensesRead"
    /\ issued = {AmountSelect("funding", last.id)}
    /\ \E i \in DOMAIN ps.sum.work : ps.sum.work[i].pc = "expenses"
    /\ \E i \in DOMAIN ps.sum.work : ps.sum.work[i].pc = "funding"


-----------------------------------------------------------------------------
(* The two dashboards' groupings compared.                                  *)

\* the per-key totals of the first dashboard's chart entries
C17_ChartTotals(entries) == {<<entries[i].name, entries[i].amount>> : i \in DOMAIN entries}

\* the per-key totals of the second dashboard's summary entries
C17_SummaryTotals(entries) == {<<entries[i].key, entries[i].total>> : i \in DOMAIN entries}

\* C17: for every fetched list of expenses (resp. funding) rows, the per-key
\* totals of getExpensesByCategory (resp. getFundingByType) of the first
\* dashboard equal the per-key totals of the second dashboard's fallback
\* aggregation of the same rows.
C17_VariantsGroupAlike ==
    \A k \in DashKinds :
      LET qk == dash.qs[k]
          chart(has, rows) == IF k = "expenses" THEN GetExpensesByCategory(has, rows)
                                                ELSE GetFundingByType(has, rows)
      IN /\ (dash.variant = "Dashboard" /\ qk.status = "success")
              => C17_ChartTotals(chart(qk.has, qk.data))
                   = C17_SummaryTotals(Transform(KeyAndAmount(qk.fetched)))
         /\ (dash.variant = "Dashboard2" /\ qk.status = "success" /\ qk.fallback = "rows")
              => C17_SummaryTotals(qk.data) = C17_ChartTotals(chart(TRUE, qk.fetched))

\* C17 witness: the first dashboard has grouped three funding rows, two of
\* them of one type, and the fallback aggregation of the same rows has the
\* same two totals.
C17_Witness ==
    /\ dash.variant = "Dashboard"
    /\ dash.qs["funding"].status = "success"
    /\ Len(dash.qs["funding"].fetched) = 3
    /\ C17_ChartTotals(GetFundingByType(TRUE, dash.qs["funding"].data))
         = {<<"Grant", 10>>, <<"Other", 5>>}
    /\ C17_SummaryTotals(Transform(KeyAndAmount(dash.qs["funding"].fetched)))
         = {<<"Grant", 10>>, <<"Other", 5>>}


-----------------------------------------------------------------------------
(* Properties of the expense handlers' validation.                          *)

C18_CreateIncomplete ==
    \/ ~Truthy(exp.newExpense.amount) \/ ~Truthy(exp.newExpense.description)
    \/ ~Truthy(exp.newExpense.date) \/ ~Truthy(exp.newExpense.payee)

C18_Step ==
    /\ (last'.act = "handleCreateExpense" /\ C18_CreateIncomplete)
         => issued' = {} /\ muts' = muts
    /\ (last'.act = "handleUpdateExpense" /\ exp.editingExpense # Null)
         => \E r \in issued' :
              /\ issued' = {r}
              /\ r.op = "update" /\ r.table = "expenses" /\ r.id = exp.editingExpense.id
              /\ r.values.amount = exp.editingExpense.amount
              /\ r.values.description = exp.editingExpense.description
              /\ r.values.payee = exp.editingExpense.payee

\* C18: handleCreateExpense issues no insert when amount, description, date
\* or payee is empty, whereas handleUpdateExpense issues the update of any
\* non-null edited expense with the fields as they are, also when the payee or
\* description is empty or the amount is not a number.
C18_ValidationNotUniform == [][C18_Step]_vars

\* C18 witness: an update has been sent with an empty payee or with a
\* non-numeric amount.
C18_Witness ==
    /\ last.act = "handleUpdateExpense"
    /\ \E r \in issued : r.op = "update" /\ (r.values.payee = "" \/ r.values.amount = NaN)


-----------------------------------------------------------------------------
(* Properties of the program summaries' reads.                              *)

\* the summaries of one state of the store
C19_SummariesOf(rows, list) ==
    [j \in DOMAIN list |->
        ProgramSummary(list[j], AmountsOfProgram(rows["expenses"], list[j].id),
                       AmountsOfProgram(rows["funding"], list[j].id))]

C19_Step ==
    /\ last'.act \in {"expensesRead", "fundingRead"}
         => \E i \in DOMAIN ps'.sum.list :
              /\ ps'.sum.list[i].id = last'.id
              /\ last'.act = "expensesRead"
                   => ps'.sum.work[i].expenses = AmountsOfProgram(dash'.rows["expenses"], last'.id)
              /\ last'.act = "fundingRead"
                   => ps'.sum.work[i].funding = AmountsOfProgram(dash'.rows["funding"], last'.id)
    /\ (ps' # Null /\ ps'.sum.status = "success" /\ Len(ps'.history) = 1)
         => ps'.sum.data = C19_SummariesOf(ps'.history[1], ps'.sum.list)

\* C19: every read of the program-summaries query is served on its own from
\* the store as it is at that moment (only when no write committed do the
\* summaries equal those of the one store state); a write committing between
\* the reads can therefore give summaries that match no state of the store.
C19_ReadsAreSeparate == [][C19_Step]_vars

\* C19 witness: the query has succeeded with summaries that are the
\* summaries of none of the states the store went through.
C19_Witness ==
    /\ ps.sum.status = "success"
    /\ \A n \in DOMAIN ps.history :
         ps.sum.data # C19_SummariesOf(ps.history[n], ps.sum.list)


-----------------------------------------------------------------------------
(* Properties of a profile submission's two updates.                        *)

\* every request of the last submission has been answered, none with a failure
C20_AllSucceeded == prof.sub.made /\ prof.sub.pending = {} /\ ~prof.sub.failed

\* C20: the profile update and the avatar upload with its avatar_url update
\* run unordered; whenever all requests of a submission have succeeded, the
\* profile row has the submitted display_name and theme_preference and, when a
\* file was submitted, the public URL of the uploaded file as avatar_url.
C20_UpdatesKeepEachOthersColumns ==
    C20_AllSucceeded
      => /\ prof.row.display_name = prof.sub.data.display_name
         /\ prof.row.theme_preference = prof.sub.data.theme_preference
         /\ prof.sub.path # <<>>
              => /\ prof.row.avatar_url = GetPublicUrl(prof.sub.path)
                 /\ prof.sub.path \in prof.bucket

\* C20 witness: a submission with a file has succeeded in the interleaving
\* where the avatar_url update was applied before the profile update.
C20_Witness ==
    /\ C20_AllSucceeded
    /\ prof.sub.path # <<>>
    /\ last.act = "update"
    /\ prof.row.avatar_url = GetPublicUrl(prof.sub.path)
    /\ prof.row.display_name = "a"


-----------------------------------------------------------------------------
(* The Layout (page frame): its profile query and the theme toggle button.  *)
(* The button is rendered only for a signed-in user.                        *)

MaxToggles == 2     \* clicks on the theme button in one visit

NoTheme == "undefined"      \* no profile in the cache / no value returned

\* the Layout's profile query: data is the cached profile's theme_preference,
\* has tells whether the cached profile is non-null
LayoutQueryInit == [has |-> FALSE, data |-> NoTheme, fetch |-> "sent"]

LayoutInit(theme) ==
    [theme |-> theme,           \* profiles.theme_preference in the store
     query |-> LayoutQueryInit,
     muts |-> {},               \* toggleTheme mutations that have not settled
     clicks |-> 0,
     log |-> <<>>]              \* per click: the stored theme then, and the outcome

LayFrame == UNCHANGED <<page, db, nextId, q, muts, idx, prg, fnd, exp, steps, dash, ps, prof>>

\* const newTheme = profile.theme_preference === 'dark' ? 'light' : 'dark'
NewTheme(cached) == IF cached = "dark" THEN "light" ELSE "dark"

\* if (!user || !profile) return;
ToggleReturnsEarly(has) == ~has

ThemeUpdate(theme) == ProfileRequest("update", [theme_preference |-> theme])

\* the profile select returns: the row, or null when the select failed
\* (console.error, return null: the query succeeds with null data)
LayoutQueryReturns ==
    /\ lay.query.fetch = "sent"
    /\ \E ok \in BOOLEAN :
         lay' = [lay EXCEPT !.query = [has |-> ok,
                                       data |-> IF ok THEN lay.theme ELSE NoTheme,
                                       fetch |-> "idle"]]
    /\ last' = Event("QuerySucceeded", "profile", NoId)
    /\ toasts' = <<>> /\ issued' = {} /\ invalidated' = {}
    /\ LayFrame

\* the theme button: toggleTheme.mutate(); the mutationFn runs up to its
\* return or its await
ToggleTheme ==
    /\ lay.clicks < MaxToggles
    /\ LET id == lay.clicks + 1
           early == ToggleReturnsEarly(lay.query.has)
           newTheme == IF early THEN NoTheme ELSE NewTheme(lay.query.data)
       IN /\ lay' = [lay EXCEPT
                !.clicks = id,
                !.muts = @ \cup {[id |-> id, pc |-> IF early THEN "returned" ELSE "sent",
                                  newTheme |-> newTheme]},
                !.log = Append(@, [before |-> lay.theme, outcome |-> "pending"])]
          /\ issued' = IF early THEN {} ELSE {ThemeUpdate(newTheme)}
          /\ last' = Event("toggleTheme", "profile", id)
    /\ toasts' = <<>> /\ invalidated' = {}
    /\ LayFrame

\* the store answers a toggle's update
ToggleThemeServer(m) ==
    /\ m \in lay.muts /\ m.pc = "sent"
    /\ \E ok \in BOOLEAN :
         lay' = [lay EXCEPT
             !.muts = (@ \ {m}) \cup {[m EXCEPT !.pc = IF ok THEN "ok" ELSE "failed"]},
             !.theme = IF ok THEN m.newTheme ELSE @]
    /\ last' = Event("update", "profiles", m.id)
    /\ toasts' = <<>> /\ issued' = {} /\ invalidated' = {}
    /\ LayFrame

\* the mutationFn finishes: on an error it raises the toast and throws (there
\* is no onError); otherwise onSuccess(newTheme) invalidates the profile query
\* and raises the success toast
ToggleThemeSettled(m) ==
    /\ m \in lay.muts /\ m.pc \in {"returned", "ok", "failed"}
    /\ IF m.pc = "failed"
       THEN /\ lay' = [lay EXCEPT !.muts = @ \ {m}, !.log[m.id].outcome = "failed"]
            /\ toasts' = <<Toast("error", "Failed to update theme preference")>>
            /\ issued' = {} /\ invalidated' = {}
            /\ last' = Event("toggleThemeFailed", m.newTheme, m.id)
       ELSE /\ lay' = [lay EXCEPT !.muts = @ \ {m}, !.log[m.id].outcome = m.pc,
                                  !.query.fetch = "sent"]
            /\ toasts' = <<Toast("success", "Theme changed to " \o m.newTheme \o " mode")>>
            /\ issued' = {ProfileRequest("select", NoValues)}
            /\ invalidated' = {"profile"}
            /\ last' = Event("toggleThemeSucceeded", m.newTheme, m.id)
    /\ LayFrame

InitLayout ==
    /\ page = "Layout"
    /\ db = InitialDb
    /\ nextId = [t \in Tables |-> 3]
    /\ q = [k \in Keys |-> IdleQuery]
    /\ muts = {}
    /\ steps = 0
    /\ dash = Null /\ ps = Null /\ prof = Null
    /\ idx = IndexInit /\ prg = ProgramsInit /\ fnd = FundingInit /\ exp = ExpensesInit
    /\ \E theme \in Themes : lay = LayoutInit(theme)
    /\ last = Event("mount", "", NoId)
    /\ toasts = <<>>
    /\ issued = {ProfileRequest("select", NoValues)}
    /\ invalidated = {}

NextLayout ==
    \/ LayoutQueryReturns
    \/ ToggleTheme
    \/ \E m \in lay.muts : ToggleThemeServer(m)
    \/ \E m \in lay.muts : ToggleThemeSettled(m)

SpecLayout == InitLayout /\ [][NextLayout]_vars


-----------------------------------------------------------------------------
(* C21: two theme toggles cancel out: when two toggleTheme mutations were   *)
(* triggered one after the other and both succeeded, the stored             *)
(* theme_preference equals its value before the first toggle, whatever the  *)
(* interleaving with the profile refetch that follows the first one.        *)
C21_TwoTogglesCancelOut ==
    (/\ lay # Null
     /\ Len(lay.log) = 2
     /\ lay.muts = {}
     /\ lay.log[1].outcome = "ok"
     /\ lay.log[2].outcome = "ok")
    => lay.theme = lay.log[1].before

(* C28: the theme-changed success notification is raised only after a       *)
(* profiles update setting theme_preference to the announced theme has      *)
(* succeeded; a toggle without a cached profile sends no update and shows   *)
(* no success notification.                                                 *)
C28_SuccessToastOnlyAfterUpdate ==
    lay # Null =>
      /\ \A i \in 1..Len(toasts) :
           toasts[i].variant = "success" =>
             /\ last.act = "toggleThemeSucceeded"
             /\ lay.log[last.id].outcome = "ok"
             /\ last.key \in Themes
             /\ toasts[i].text = "Theme changed to " \o last.key \o " mode"
      /\ (last.act = "toggleTheme" /\ \E m \in lay.muts : m.id = last.id /\ m.pc = "returned")
           => issued = {}


(* C22: the profile form is initialised from the stored profile once it has *)
(* been fetched, so saving the form without editing any field leaves the    *)
(* stored display_name and theme_preference unchanged: the update such a    *)
(* save sends carries the stored values.                                    *)
C22_Step ==
    (/\ prof # Null
     /\ last'.act = "handleSubmit"
     /\ prof.query.has
     /\ ~prof.edited)
    => /\ prof.formData.display_name = prof.row.display_name
       /\ prof.formData.theme_preference = prof.row.theme_preference
       /\ \A r \in issued' :
            r.op = "update" =>
              /\ r.values.display_name = prof.row.display_name
              /\ r.values.theme_preference = prof.row.theme_preference

C22_UneditedSaveChangesNothing == [][C22_Step]_vars


(* C23: on the Programs page isEditMode is true exactly when                *)
(* currentProgramId is set; Add Program opens the dialog in insert mode and *)
(* Edit on program p opens it in edit mode for p, the mode stays as opened  *)
(* while the dialog is open, and a submit of a complete form sends an       *)
(* insert in insert mode and an update restricted to p's id in edit mode,   *)
(* whatever opens, cancels, dismissals, edits and submits came before.      *)
C23_ModeMatchesId(s) == s.isEditMode <=> s.currentProgramId # NoId

C23_Step ==
    page = "Programs" =>
      /\ C23_ModeMatchesId(prg) /\ C23_ModeMatchesId(prg')
      /\ last'.act = "ProgramsAdd"
           => prg'.isOpen /\ ~prg'.isEditMode /\ prg'.currentProgramId = NoId
      /\ last'.act = "handleEditProgram"
           => /\ prg'.isOpen /\ prg'.isEditMode
              /\ prg'.currentProgramId = last'.id
              /\ \E program \in ProgramsListed : program.id = last'.id
      /\ (prg.isOpen /\ prg'.isOpen /\ last'.act \notin {"ProgramsAdd", "handleEditProgram"})
           => /\ prg'.isEditMode = prg.isEditMode
              /\ prg'.currentProgramId = prg.currentProgramId
      /\ (last'.act = "handleSubmit" /\ issued' # {})
           => /\ prg.isOpen
              /\ Cardinality(issued') = 1
              /\ \A r \in issued' :
                   /\ r.table = "programs"
                   /\ ~prg.isEditMode => r.op = "insert"
                   /\ prg.isEditMode => r.op = "update" /\ r.id = prg.currentProgramId

C23_SubmitFollowsTheOpening == [][C23_Step]_vars

\* an update for the edited program, sent by a submit that other dialog
\* actions (an Add Program, a cancel or dismissal, typing) preceded
C23_Witness ==
    /\ page = "Programs"
    /\ last.act = "handleSubmit"
    /\ prg.isOpen /\ prg.isEditMode
    /\ \E r \in issued : r.op = "update" /\ r.id = prg.currentProgramId
    /\ steps = MaxSteps

(* C24: whenever an edit dialog is open its edit target is set: on the      *)
(* Index page isEditing implies editingProgram is non-null, on the Expenses *)
(* page isEditing implies editingExpense is non-null, so an update sent by  *)
(* Save Changes always names the id of a row.                               *)
C24_EditTargetSet ==
    /\ idx.isEditing => idx.editingProgram # Null
    /\ exp.isEditing => exp.editingExpense # Null
    /\ last.act \in {"handleUpdateProgram", "handleUpdateExpense"}
         => \A r \in issued : r.op = "update" /\ r.id \in 1..MaxId

\* Save Changes has sent an update from an open edit dialog, for its target
C24_Witness ==
    \/ /\ page = "Expenses" /\ exp.isEditing
       /\ last.act = "handleUpdateExpense" /\ issued # {}
       /\ \A r \in issued : r.id = exp.editingExpense.id
    \/ /\ page \in {"Index", "IndexFirst"} /\ idx.isEditing
       /\ last.act = "handleUpdateProgram" /\ issued # {}
       /\ \A r \in issued : r.id = idx.editingProgram.id


(* C25: expense status round-trips through approval_status: a create or an  *)
(* update with status s of the form's options sends approval_status = s,    *)
(* the store keeps approval_status = s on the row written, and a fetch      *)
(* returns every row with status equal to its approval_status, or pending   *)
(* where the stored approval_status is empty.                               *)
C25_Shown(approval_status) == IF approval_status = "" THEN "pending" ELSE approval_status

C25_Step ==
    page = "Expenses" =>
      /\ last'.act = "handleCreateExpense"
           => \A r \in issued' :
                /\ r.op = "insert"
                /\ r.values.approval_status = exp.newExpense.status
                /\ r.values.approval_status \in ExpenseStatusOptions
      /\ last'.act = "handleUpdateExpense"
           => \A r \in issued' :
                /\ r.op = "update"
                /\ r.values.approval_status = exp.editingExpense.status
                /\ r.values.approval_status \in ExpenseStatusOptions
      /\ (last'.key = "expenses" /\ last'.act \in {"insert", "update"})
           => \E m \in muts \ muts' :
                /\ m.phase = "sent" /\ m.req.op = last'.act
                /\ (m.req.op = "insert" /\ [m EXCEPT !.phase = "ok"] \in muts')
                     => \E x \in db'.expenses \ db.expenses :
                          /\ db'.expenses = db.expenses \cup {x}
                          /\ x.approval_status = m.req.values.approval_status
                /\ (m.req.op = "update" /\ [m EXCEPT !.phase = "ok"] \in muts')
                     => \A x \in db'.expenses :
                          x.id = m.req.id
                            => x.approval_status = m.req.values.approval_status
      /\ (last'.key = "expenses" /\ last'.act = "QuerySucceeded")
           => /\ {r.id : r \in q'["expenses"].rows} = {x.id : x \in q["expenses"].resp.rows}
              /\ \A r \in q'["expenses"].rows :
                   /\ r.status = C25_Shown(r.approval_status)
                   /\ \E x \in q["expenses"].resp.rows :
                        x.id = r.id /\ x.approval_status = r.approval_status

C25_StatusRoundTrips == [][C25_Step]_vars

\* a row updated to approved has been fetched as approved, next to the row
\* whose stored approval_status is empty, shown as pending
C25_Witness ==
    /\ page = "Expenses"
    /\ last.act = "QuerySucceeded" /\ last.key = "expenses"
    /\ \E r \in q["expenses"].rows : r.approval_status = "" /\ r.status = "pending"
    /\ \E r \in q["expenses"].rows :
         /\ r.status = "approved"
         /\ \E x \in db.expenses : x.id = r.id /\ x.approval_status = "approved"


(* C26: an expense update writes only the columns amount, description,      *)
(* category, payment_method, payee, program_id and approval_status of the   *)
(* single row whose id is the edited expense's id; it sends no other field  *)
(* of the edited object, and every other row and every other column of the  *)
(* row stay as they were.                                                   *)
C26_Columns ==
    {"amount", "description", "category", "payment_method", "payee", "program_id",
     "approval_status"}

C26_Step ==
    page = "Expenses" =>
      /\ (last'.act = "handleUpdateExpense" /\ issued' # {})
           => \A r \in issued' :
                /\ r.op = "update" /\ r.table = "expenses"
                /\ r.id = exp.editingExpense.id
                /\ r.user_id = AnyS /\ r.program_id = AnyId /\ r.category = AnyS
                /\ DOMAIN r.values = C26_Columns
                /\ \A c \in C26_Columns \ {"approval_status"} :
                     r.values[c] = exp.editingExpense[c]
      /\ (last'.key = "expenses" /\ last'.act = "update")
           => \E m \in muts :
                /\ m.h = "handleUpdateExpense" /\ m.phase = "sent"
                /\ UNCHANGED <<db.programs, db.funding>>
                /\ {x.id : x \in db'.expenses} = {x.id : x \in db.expenses}
                /\ \A x \in db.expenses, y \in db'.expenses :
                     x.id = y.id =>
                       /\ x.id # m.req.id => y = x
                       /\ DOMAIN y = DOMAIN x
                       /\ \A c \in DOMAIN x \ C26_Columns : y[c] = x[c]

C26_UpdateWritesItsColumnsOnly == [][C26_Step]_vars

\* the store has applied an update that changed the edited row's payee while
\* another row is in the table
C26_Witness ==
    /\ page = "Expenses"
    /\ last.act = "update" /\ last.key = "expenses"
    /\ \E m \in muts :
         /\ m.h = "handleUpdateExpense" /\ m.phase = "ok"
         /\ \E x \in db.expenses : x.id = m.req.id /\ x.payee = "t" /\ x.user_id = "u1"
         /\ \E x \in db.expenses : x.id # m.req.id


(* C27: uploadAvatar always releases its busy state: isUploading is true    *)
(* from the start of an upload until uploadAvatar finishes, and when it     *)
(* finishes, whatever the outcome, isUploading is false and the selected    *)
(* avatarFile is cleared.                                                   *)
C27_BusyWhileRunning(p) == p.isUploading <=> p.upload.pc # "idle"

C27_Step ==
    prof # Null =>
      /\ C27_BusyWhileRunning(prof) /\ C27_BusyWhileRunning(prof')
      /\ (last'.act = "handleSubmit" /\ prof.avatarFile # NoFile)
           => prof'.isUploading /\ prof'.upload.pc = "uploading"
      /\ (prof.upload.pc # "idle" /\ prof'.upload.pc = "idle")
           => /\ last'.act \in {"uploadAvatarFailed", "uploadAvatarSucceeded"}
              /\ ~prof'.isUploading
              /\ prof'.avatarFile = NoFile
      /\ (prof.upload.pc \in {"uploadFailed", "updated", "updateFailed"}
            /\ prof'.upload # prof.upload)
           => prof'.upload.pc = "idle"

C27_UploadReleasesBusyState == [][C27_Step]_vars

\* uploadAvatar has finished on a refused avatar_url update
C27_Witness ==
    /\ prof # Null
    /\ last.act = "uploadAvatarFailed" /\ last.key = "update"
    /\ ~prof.isUploading
    /\ prof.avatarFile = NoFile
    /\ prof.bucket # {}

====
